---- MODULE Spec2Model ----
(***************************************************************************)
(* State-machine model of the socialcrabs automation core:                 *)
(*   - RateLimiter   (utils/rate-limiter.ts): sliding 24h quota windows,   *)
(*                    kept in memory and written through to one JSON file  *)
(*   - platform handlers (platforms/*.ts): quota check, navigate, locate,  *)
(*                    click, verify, record, result                        *)
(*   - BrowserManager (browser/manager.ts): contexts and session files     *)
(* Time is the value of Date.now() in milliseconds.                        *)
(***************************************************************************)
EXTENDS Integers, Sequences, FiniteSets, TLC

(***************************************************************************)
(* Bounds of the model                                                     *)
(***************************************************************************)
NumProcs == 2        \* concurrent callers of the handlers
MaxCalls == 2        \* handler invocations in one behaviour of Spec
MaxRecords == 2      \* record calls in one behaviour of SpecLimiter
MaxDefaultRecords == 51  \* record calls in one behaviour of SpecDefault
MaxTicks == 3        \* clock advances in one behaviour

Procs == 1..NumProcs
Targets == {"t1", "t2"}

(***************************************************************************)
(* Types (types/index.ts)                                                  *)
(***************************************************************************)
Platforms == {"instagram", "twitter", "linkedin"}

ActionTypes == {"like", "comment", "follow", "unfollow", "dm", "post",
                "retweet", "reply", "connect", "view_story", "view_profile"}

(***************************************************************************)
(* RateLimiter                                                             *)
(***************************************************************************)
SECOND_MS == 1000
DAY_MS == 24 * 60 * 60 * 1000

\* The steps the clock is observed to advance by: one second, and one second
\* short of a day, so that ages of 24h - 1s, 24h and 24h + 1s all occur.
TickSteps == {SECOND_MS, DAY_MS - SECOND_MS}

DEFAULT_LIMIT == 50

\* The limits handed to the constructor.  A key that is missing from a
\* platform's record models an unconfigured family; twitter's posts are
\* configured with a ceiling of 0 (RATE_LIMIT_TWITTER_POST=0), and linkedin
\* has the "connect" entry that loadConfig gives it next to "follow".
limits ==
  [p \in Platforms |->
     CASE p = "instagram" -> [like |-> 2, comment |-> 1, follow |-> 1]
       [] p = "linkedin"  -> [like |-> 1, follow |-> 1, connect |-> 1]
       [] OTHER           -> [like |-> 1, follow |-> 1, post |-> 0]]

\* Variant of getKey: every action type has a window of its own.
getKeyOwn(action) == action

\* keyMap[action] || action
getKey(action) ==
  CASE action = "view_story"   -> "like"
    [] action = "view_profile" -> "like"
    [] action = "retweet"      -> "like"
    [] action = "reply"        -> "comment"
    [] action = "connect"      -> "follow"
    [] OTHER                   -> action

StoreKeys == {getKey(a) : a \in ActionTypes}

\* Variant of getLimit: a family without a configured ceiling has no limit
\* (the largest 32-bit integer).
getLimitUnlimited(platform, key) ==
  IF key \in DOMAIN limits[platform] /\ limits[platform][key] # 0
  THEN limits[platform][key]
  ELSE 2147483647

\* this.limits[platform]?.[key] || 50
getLimit(platform, key) ==
  IF key \in DOMAIN limits[platform] /\ limits[platform][key] # 0
  THEN limits[platform][key]
  ELSE DEFAULT_LIMIT

EmptyStore == [p \in Platforms |-> [k \in StoreKeys |-> <<>>]]

Max(a, b) == IF a >= b THEN a ELSE b

\* Variant of Filter: an entry aged exactly 24 hours is kept.
RECURSIVE FilterInclusive(_, _)
FilterInclusive(s, dayAgo) ==
  IF s = <<>> THEN <<>>
  ELSE IF Head(s) >= dayAgo
       THEN <<Head(s)>> \o FilterInclusive(Tail(s), dayAgo)
       ELSE FilterInclusive(Tail(s), dayAgo)

\* Array.prototype.filter with the predicate record.timestamp > dayAgo
RECURSIVE Filter(_, _)
Filter(s, dayAgo) ==
  IF s = <<>> THEN <<>>
  ELSE IF Head(s) > dayAgo
       THEN <<Head(s)>> \o Filter(Tail(s), dayAgo)
       ELSE Filter(Tail(s), dayAgo)

\* The timestamps of s that are less than 24 hours old at clock value t.
InWindow(s, t) == SelectSeq(s, LAMBDA ts : t - ts < DAY_MS)

\* Variant of check: resetAt is taken from the newest entry of the window.
checkResetNewest(st, platform, action, t) ==
  LET key == getKey(action)
      limit == getLimit(platform, key)
      kept == Filter(st[platform][key], t - DAY_MS)
      remaining == Max(0, limit - Len(kept))
  IN [store  |-> [st EXCEPT ![platform][key] = kept],
      status |-> [remaining |-> remaining,
                  total     |-> limit,
                  resetAt   |-> IF Len(kept) > 0 THEN kept[Len(kept)] + DAY_MS
                                                 ELSE t + DAY_MS,
                  allowed   |-> remaining > 0]]

\* Variant of check: the count is taken before the window is pruned.
checkStale(st, platform, action, t) ==
  LET key == getKey(action)
      limit == getLimit(platform, key)
      kept == Filter(st[platform][key], t - DAY_MS)
      remaining == Max(0, limit - Len(st[platform][key]))
  IN [store  |-> [st EXCEPT ![platform][key] = kept],
      status |-> [remaining |-> remaining,
                  total     |-> limit,
                  resetAt   |-> IF Len(kept) > 0 THEN kept[1] + DAY_MS
                                                 ELSE t + DAY_MS,
                  allowed   |-> remaining > 0]]

\* Variant of check: an allowed action is recorded by the check itself.
checkAndRecord(st, platform, action, t) ==
  LET key == getKey(action)
      limit == getLimit(platform, key)
      kept == Filter(st[platform][key], t - DAY_MS)
      remaining == Max(0, limit - Len(kept))
  IN [store  |-> [st EXCEPT ![platform][key] =
                     IF remaining > 0 THEN Append(kept, t) ELSE kept],
      status |-> [remaining |-> remaining,
                  total     |-> limit,
                  resetAt   |-> IF Len(kept) > 0 THEN kept[1] + DAY_MS
                                                 ELSE t + DAY_MS,
                  allowed   |-> remaining > 0]]

\* Variant of check: the action is allowed while the window is not over the
\* limit.
checkLenient(st, platform, action, t) ==
  LET key == getKey(action)
      limit == getLimit(platform, key)
      kept == Filter(st[platform][key], t - DAY_MS)
      remaining == Max(0, limit - Len(kept))
  IN [store  |-> [st EXCEPT ![platform][key] = kept],
      status |-> [remaining |-> remaining,
                  total     |-> limit,
                  resetAt   |-> IF Len(kept) > 0 THEN kept[1] + DAY_MS
                                                 ELSE t + DAY_MS,
                  allowed   |-> Len(kept) <= limit]]

\* Variant of check: one window per family, shared by the platforms.
checkAllPlatforms(st, platform, action, t) ==
  LET key == getKey(action)
      limit == getLimit(platform, key)
      kept == Filter(st[platform][key], t - DAY_MS)
      others == {q \in Platforms \ {platform} :
                   Filter(st[q][key], t - DAY_MS) # <<>>}
      remaining == Max(0, limit - (Len(kept) + Cardinality(others)))
  IN [store  |-> [st EXCEPT ![platform][key] = kept],
      status |-> [remaining |-> remaining,
                  total     |-> limit,
                  resetAt   |-> IF Len(kept) > 0 THEN kept[1] + DAY_MS
                                                 ELSE t + DAY_MS,
                  allowed   |-> remaining > 0]]

\* check(platform, action) at clock value t: the store it leaves behind and
\* the status it returns.
check(st, platform, action, t) ==
  LET key == getKey(action)
      limit == getLimit(platform, key)
      dayAgo == t - DAY_MS
      kept == Filter(st[platform][key], dayAgo)
      count == Len(kept)
      remaining == Max(0, limit - count)
  IN [store  |-> [st EXCEPT ![platform][key] = kept],
      status |-> [remaining |-> remaining,
                  total     |-> limit,
                  resetAt   |-> IF Len(kept) > 0 THEN kept[1] + DAY_MS
                                                 ELSE t + DAY_MS,
                  allowed   |-> remaining > 0]]

\* The in-memory part of record(platform, action) at clock value t.
push(st, platform, action, t) ==
  [st EXCEPT ![platform][getKey(action)] = Append(@, t)]

\* persist(): writeFileSync of the whole store; a write error is caught and
\* logged, and the file is then left as it was.
persist(file, st, writeOk) ==
  IF writeOk THEN [exists |-> TRUE, data |-> st] ELSE file

\* load(): the file's content when the file exists, the empty store otherwise.
load(file) ==
  IF file.exists THEN file.data ELSE EmptyStore

(***************************************************************************)
(* Platform handlers.  A handler is described by the platform it belongs   *)
(* to, the ActionType it reports, the ActionType it passes to              *)
(* checkAndRecordAction / recordAction, whether it looks for the           *)
(* already-in-the-desired-state element before acting, and whether it      *)
(* reads the page back after the click before it records.                  *)
(***************************************************************************)
InstagramLike ==
  [platform |-> "instagram", action |-> "like", quota |-> "like",
   already |-> TRUE, verify |-> TRUE]

InstagramComment ==
  [platform |-> "instagram", action |-> "comment", quota |-> "comment",
   already |-> FALSE, verify |-> FALSE]

InstagramFollow ==
  [platform |-> "instagram", action |-> "follow", quota |-> "follow",
   already |-> TRUE, verify |-> TRUE]

LinkedInConnect ==
  [platform |-> "linkedin", action |-> "connect", quota |-> "follow",
   already |-> TRUE, verify |-> FALSE]

Handlers == {InstagramLike, InstagramComment, InstagramFollow,
             LinkedInConnect}

\* A caller that is not inside a handler.
Idle ==
  [pc |-> "idle", h |-> InstagramLike, target |-> "t1", allowed |-> FALSE,
   success |-> FALSE, error |-> "", before |-> FALSE, page |-> FALSE,
   was |-> FALSE,
   clicked |-> FALSE, verified |-> FALSE, recorded |-> FALSE, event |-> "",
   text |-> <<>>, typed |-> <<>>, startTime |-> 0]

\* The pages' state when the program starts: nothing done yet, or one account
\* followed already.
Worlds == {{}, {<<"instagram", "follow", "t1">>}}

VARIABLES
  now,        \* Date.now()
  ticks,      \* clock advances so far
  store,      \* RateLimiter.store
  file,       \* the rate-limits.json file: [exists, data]
  proc,       \* per caller: position in the handler and its locals
  res,        \* the ActionResult returned last, with the path that led to it
  world,      \* the pages' state: <<platform, action, target>> already done
  calls,      \* handler invocations / limiter calls so far
  recorded,   \* history: timestamps appended by record, or loaded, per window
  acked,      \* history: timestamps whose record call returned after a
              \* successful write, per window
  last,       \* the call made last on the limiter's or the browser
              \* manager's interface since the clock last advanced
  browser,    \* BrowserManager.browser is not null
  contexts,   \* BrowserManager.contexts, in insertion order:
              \* [platform, cookies, storage, stealth]
  sessions,   \* the session file of each platform: [exists, form, data]
  pages,      \* BrowserManager.pages: the platforms with an open page
  silent,     \* process.env.CLAWSOCIAL_SILENT === '1'
  notifierInstance,  \* notifier.ts: notifierInstance is not null
  notified,   \* history: the notifier.notify calls made, in order, each
              \* with its payload and the state of the promise it returned
  opened,     \* history: the contexts and pages that browser.newContext and
              \* context.newPage returned, in order: [kind, platform, open]
  inflight,   \* per caller: its position in getPage / getContext
  wsManager   \* the WebSocketManager: [started, apiKey, clients]

\* The BrowserManager's fields and files.
bmVars == <<browser, contexts, sessions, pages>>

\* The notification settings and the notifications sent.
notifyVars == <<silent, notifierInstance, notified>>

\* What the browser has open, and the getPage / getContext calls under way.
overlapVars == <<opened, inflight>>

\* The RateLimiter's fields and file, the handlers with their notifications,
\* and the pages.
quotaVars == <<store, file, proc, res, world, recorded, acked, notifyVars>>

vars == <<now, ticks, store, file, proc, res, world, calls, recorded,
          acked, last, browser, contexts, sessions, pages, silent,
          notifierInstance, notified, opened, inflight, wsManager>>

\* A session file that does not exist.  The form of a file is "session" (a
\* BrowserSession as saveSession writes it), "unparseable" (not JSON),
\* "nocookies" (JSON without the cookies array) or "nostamp" (JSON with the
\* cookies array and without updatedAt).
NoSession ==
  [exists |-> FALSE, form |-> "session",
   data |-> [cookies |-> {}, localStorage |-> {}, createdAt |-> 0,
             updatedAt |-> 0]]

\* A connection slot without a client.
NoClient ==
  [open |-> FALSE, authenticated |-> FALSE, subscriptions |-> {},
   received |-> {}, keyed |-> FALSE, caused |-> FALSE]

\* The clients that connect to the WebSocket server.
WsClients == {"c1", "c2"}

\* Before startServer(): no WebSocket server, no client.
NoServer ==
  [started |-> FALSE, apiKey |-> "", clients |-> [c \in WsClients |-> NoClient]]

\* A caller that is not inside getPage or getContext.
NoFlight == [pc |-> "none", platform |-> "", page |-> FALSE, ctx |-> 0]

NoCall == [op |-> "none", platform |-> "instagram", action |-> "like",
           wrote |-> FALSE]

Init ==
  /\ now = 0
  /\ ticks = 0
  /\ file = [exists |-> FALSE, data |-> EmptyStore]
  /\ store = load(file)
  /\ proc = [i \in Procs |-> Idle]
  /\ res = Idle
  /\ world \in Worlds
  /\ calls = 0
  /\ recorded = EmptyStore
  /\ acked = EmptyStore
  /\ last = NoCall
  /\ browser = FALSE
  /\ contexts = <<>>
  /\ sessions = [p \in Platforms |-> NoSession]
  /\ pages = {}
  /\ silent = FALSE
  /\ notifierInstance = FALSE
  /\ notified = <<>>
  /\ opened = <<>>
  /\ inflight = [i \in Procs |-> NoFlight]
  /\ wsManager = NoServer

\* createErrorResult: the failure result, and the event of the
\* sendNotification call it makes.
createErrorResult(p, error) ==
  [p EXCEPT !.pc = "done", !.success = FALSE, !.error = error,
            !.event = "action:error"]

\* createResult: the success result, and the event of the sendNotification
\* call it makes.
createResult(p) ==
  [p EXCEPT !.pc = "done", !.success = TRUE, !.error = "",
            !.event = "action:complete"]

\* const payload: NotificationPayload, and the promise of notifier.notify.
Payload(q) ==
  [event |-> q.event, platform |-> q.h.platform, action |-> q.h.action,
   success |-> q.success, target |-> q.target, error |-> q.error,
   state |-> "pending"]

\* Variant of sendNotification: the silence flag is not looked at.
sendNotificationLoud(sil, inst, sent, q) ==
  IF ~inst
  THEN [notified |-> sent, result |-> q]
  ELSE [notified |-> Append(sent, Payload(q)), result |-> q]

\* Variant of sendNotification: createResult and createErrorResult await
\* it, so the result is held back until the notifier has answered.
sendNotificationAwaited(sil, inst, sent, q) ==
  IF sil \/ ~inst
  THEN [notified |-> sent, result |-> q]
  ELSE [notified |-> Append(sent, Payload(q)),
        result |-> [q EXCEPT !.pc = "notifying"]]

\* this.sendNotification(event, result), not awaited by createResult and
\* createErrorResult: the notify calls made so far and the result that is
\* returned.  Nothing is sent in silent mode or without a notifier;
\* otherwise notifier.notify is called once with the payload, and whatever
\* becomes of its promise stays inside sendNotification's try/catch.
sendNotification(sil, inst, sent, q) ==
  IF sil
  THEN [notified |-> sent, result |-> q]
  ELSE IF ~inst
  THEN [notified |-> sent, result |-> q]
  ELSE [notified |-> Append(sent, Payload(q)), result |-> q]

\* Variant of Begin: the handler goes on whatever the check said.
BeginUngated(h, target, status) ==
  [Idle EXCEPT !.h = h, !.target = target, !.allowed = status.allowed,
               !.pc = "locate"]

\* The handler's first statements: checkAndRecordAction, and the early
\* return when the check disallows the action.
Begin(h, target, status) ==
  LET q == [Idle EXCEPT !.h = h, !.target = target, !.allowed = status.allowed]
  IN IF ~status.allowed
     THEN createErrorResult(q, "Rate limit exceeded")
     ELSE [q EXCEPT !.pc = "locate"]

\* A handler step leaves caller i at q: a finished call has built its
\* result with createResult or createErrorResult, which send the
\* notification, and hands it to the caller, who is idle again.
Step(i, q) ==
  /\ UNCHANGED <<silent, notifierInstance>>
  /\ IF q.pc = "done"
     THEN LET n == sendNotification(silent, notifierInstance, notified, q)
          IN /\ notified' = n.notified
             /\ res' = n.result
             /\ proc' = [proc EXCEPT ![i] = Idle]
     ELSE /\ notified' = notified
          /\ res' = res
          /\ proc' = [proc EXCEPT ![i] = q]

\* "before": the target was already in the state the action is to bring
\* about when the handler was called.
Invoke(i, h, target, max) ==
  /\ proc[i].pc = "idle"
  /\ calls < max
  /\ LET r == check(store, h.platform, h.quota, now)
         d == <<h.platform, h.action, target>> \in world
     IN /\ store' = r.store
        /\ Step(i, [Begin(h, target, r.status) EXCEPT !.before = d])
  /\ calls' = calls + 1
  /\ UNCHANGED <<wsManager, overlapVars,
                 bmVars, now, ticks, file, world, recorded, acked, last>>

Done(p) == <<p.h.platform, p.h.action, p.target>>

\* Variant of catchError: the handler has no catch block, and the exception
\* leaves the handler.
catchErrorRethrow(p) == [p EXCEPT !.pc = "raised"]

\* The catch block that encloses every handler's statements after the quota
\* check: createErrorResult(action, target, String(error), ...).
catchError(p) == createErrorResult(p, "Error")

\* Variant of Locate: the already-done element is not looked for.
LocateNoAlready(p, loaded, found) ==
  IF ~loaded
  THEN createErrorResult(p, "Error")
  ELSE IF ~found
       THEN createErrorResult(p, "not found")
       ELSE [p EXCEPT !.pc = "click"]

\* this.navigate(url) and the element lookups before the click.  The
\* navigation throws (the catch block builds the failure result), or the
\* page is loaded and the handler looks for the already-done element first
\* (handlers that have one), then for the element to act on.
Locate(p, loaded, found) ==
  IF ~loaded
  THEN catchError(p)
  ELSE IF p.h.already /\ Done(p) \in world
       THEN createResult(p)
       ELSE IF ~found
            THEN createErrorResult(p, "not found")
            ELSE [p EXCEPT !.pc = "click"]

\* "page": a page was requested; "was": the page loaded and showed the
\* target already in the state the action is to bring about.
Navigate(i, loaded, found) ==
  /\ proc[i].pc = "locate"
  /\ Step(i, Locate([proc[i] EXCEPT !.page = TRUE,
                                    !.was = loaded /\ Done(proc[i]) \in world],
                    loaded, found))
  /\ UNCHANGED <<wsManager, overlapVars,
                 bmVars, now, ticks, store, file, world, calls, recorded,
                 acked, last>>

\* After the click (and typing, for a comment): handlers that read the page
\* back go on to the read-back, the others go straight to recordAction.
AfterClick(p) ==
  [p EXCEPT !.pc = IF p.h.verify THEN "verify" ELSE "record"]

\* Variant of clickHuman: one standard click, no fallback.
clickHumanSingleTier(scrollOk, ok1, ok2, ok3) ==
  [tiers |-> IF ~scrollOk THEN <<>> ELSE <<"click">>,
   thrown |-> ~scrollOk \/ ~ok1]

\* clickHuman(selector): the click attempts made, in order, and whether an
\* exception leaves clickHuman.  scrollIntoViewIfNeeded comes first and is
\* not caught; element.click is tried, in its catch block element.click
\* with force, and in the catch block of that the dispatchEvent through
\* element.evaluate, which is not caught.  ok1, ok2, ok3 say whether the
\* three attempts return.
clickHuman(scrollOk, ok1, ok2, ok3) ==
  [tiers |-> IF ~scrollOk THEN <<>>
             ELSE IF ok1 THEN <<"click">>
             ELSE IF ok2 THEN <<"click", "force">>
             ELSE <<"click", "force", "dispatchEvent">>,
   thrown |-> ~scrollOk \/ (~ok1 /\ ~ok2 /\ ~ok3)]

\* await this.clickHuman(...) in a handler: "thrown" when an exception
\* leaves clickHuman (the handler's catch block builds the failure result);
\* otherwise the click was dispatched, and the page took it ("done") or
\* ignored it ("ignored").
ClickStep(i, outcome) ==
  /\ proc[i].pc = "click"
  /\ Step(i, IF outcome = "thrown"
             THEN catchError([proc[i] EXCEPT !.clicked = TRUE])
             ELSE AfterClick([proc[i] EXCEPT !.clicked = TRUE]))
  /\ world' = IF outcome = "done" THEN world \cup {Done(proc[i])} ELSE world
  /\ UNCHANGED <<wsManager, overlapVars,
                 bmVars, now, ticks, store, file, calls, recorded, acked>>

\* The click of a handler, seen by its outcome only.
Click(i, outcome) ==
  /\ ClickStep(i, outcome)
  /\ UNCHANGED last

\* The click of a handler, tier by tier: took says whether the page takes a
\* click that was dispatched.
ClickHuman(i, scrollOk, ok1, ok2, ok3, took) ==
  LET c == clickHuman(scrollOk, ok1, ok2, ok3)
  IN /\ ClickStep(i, IF c.thrown THEN "thrown"
                     ELSE IF took THEN "done" ELSE "ignored")
     /\ last' = [op |-> "clickHuman", platform |-> proc[i].h.platform,
                 tiers |-> c.tiers, thrown |-> c.thrown,
                 scrollOk |-> scrollOk, ok |-> <<ok1, ok2, ok3>>,
                 took |-> took, call |-> calls]

\* The read-back after the click: elementExists(already-done element).
ReadBack(p) ==
  IF Done(p) \in world
  THEN [p EXCEPT !.pc = "record"]
  ELSE createErrorResult(p, "action failed")

\* "verified": the read-back was made and found the target done.
Verify(i) ==
  /\ proc[i].pc = "verify"
  /\ Step(i, ReadBack([proc[i] EXCEPT !.verified = Done(proc[i]) \in world]))
  /\ UNCHANGED <<wsManager, overlapVars,
                 bmVars, now, ticks, store, file, world, calls, recorded,
                 acked, last>>

\* Variant of record: the file is written before the timestamp is pushed.
recordWriteBehind(st, f, platform, action, t, writeOk) ==
  [store |-> push(st, platform, action, t), file |-> persist(f, st, writeOk)]

\* Variant of record: a failed write takes the new timestamp back.
recordRollback(st, f, platform, action, t, writeOk) ==
  LET pushed == push(st, platform, action, t)
  IN [store |-> IF writeOk THEN pushed ELSE st,
      file |-> persist(f, pushed, writeOk)]

\* record(platform, action) with the write it awaits: the new store and the
\* new file.
record(st, f, platform, action, t, writeOk) ==
  LET pushed == push(st, platform, action, t)
  IN [store |-> pushed, file |-> persist(f, pushed, writeOk)]

\* The effect of one record call on the limiter and on the histories.
RecordCall(platform, action, writeOk) ==
  LET r == record(store, file, platform, action, now, writeOk)
  IN /\ store' = r.store
     /\ file' = r.file
     /\ recorded' = push(recorded, platform, action, now)
     /\ acked' = IF writeOk THEN push(acked, platform, action, now) ELSE acked

\* recordAction, then createResult.
Record(i, writeOk) ==
  /\ proc[i].pc = "record"
  /\ RecordCall(proc[i].h.platform, proc[i].h.quota, writeOk)
  /\ Step(i, createResult([proc[i] EXCEPT !.recorded = TRUE]))
  /\ UNCHANGED <<wsManager, overlapVars,
                 bmVars, now, ticks, world, calls, last>>

Next ==
  \/ \E i \in Procs, h \in Handlers, t \in Targets :
        Invoke(i, h, t, MaxCalls)
  \/ \E i \in Procs, loaded, found \in BOOLEAN : Navigate(i, loaded, found)
  \/ \E i \in Procs, o \in {"done", "ignored", "thrown"} : Click(i, o)
  \/ \E i \in Procs : Verify(i)
  \/ \E i \in Procs, writeOk \in BOOLEAN : Record(i, writeOk)

\* The handlers, called concurrently, at one clock value.
Spec == Init /\ [][Next]_vars

(***************************************************************************)
(* The RateLimiter called directly on its interface, over time and across  *)
(* restarts.                                                               *)
(***************************************************************************)
\* The (platform, action) pairs the limiter is called with: two platforms,
\* both with an action that getKey maps to the family of another.
LimiterCalls == {<<"instagram", "view_story">>, <<"linkedin", "connect">>}

\* await rateLimiter.check(platform, action)
CheckCall(platform, action) ==
  /\ store' = check(store, platform, action, now).store
  /\ last' = [op |-> "check", platform |-> platform, action |-> action,
              wrote |-> FALSE]
  /\ UNCHANGED <<wsManager, overlapVars,
                 bmVars, notifyVars, now, ticks, file, proc, res, world,
                 calls, recorded, acked>>

\* await rateLimiter.record(platform, action), while fewer than max record
\* calls have been made.
RecordUpTo(platform, action, writeOk, max) ==
  /\ calls < max
  /\ calls' = calls + 1
  /\ RecordCall(platform, action, writeOk)
  /\ last' = [op |-> "record", platform |-> platform, action |-> action,
              wrote |-> writeOk]
  /\ UNCHANGED <<wsManager, overlapVars,
                 bmVars, notifyVars, now, ticks, proc, res, world>>

\* await rateLimiter.record(platform, action)
RecordOp(platform, action, writeOk) ==
  RecordUpTo(platform, action, writeOk, MaxRecords)

\* The clock advances.
Tick(d, max) ==
  /\ ticks < max
  /\ now' = now + d
  /\ ticks' = ticks + 1
  /\ last' = NoCall
  /\ UNCHANGED <<wsManager, overlapVars,
                 bmVars, notifyVars, store, file, proc, res, world, calls,
                 recorded, acked>>

\* The process dies and is started again: the constructor loads the file.
Crash ==
  /\ store' = load(file)
  /\ recorded' = load(file)
  /\ last' = [NoCall EXCEPT !.op = "crash"]
  /\ UNCHANGED <<wsManager, overlapVars,
                 bmVars, notifyVars, now, ticks, file, proc, res, world,
                 calls, acked>>

NextLimiter ==
  \/ \E c \in LimiterCalls : CheckCall(c[1], c[2])
  \/ \E c \in LimiterCalls, writeOk \in BOOLEAN : RecordOp(c[1], c[2], writeOk)
  \/ \E d \in TickSteps : Tick(d, MaxTicks)
  \/ Crash

\* The limiter is constructed before any page has been opened.
InitLimiter == Init /\ world = {}

SpecLimiter == InitLimiter /\ [][NextLimiter]_vars

\* The limiter called for families that have no ceiling in the limits it
\* was constructed with, until their windows are full.
DefaultCalls == {<<"twitter", "dm">>, <<"twitter", "post">>}

NextDefault ==
  \/ \E c \in DefaultCalls : CheckCall(c[1], c[2])
  \/ \E c \in DefaultCalls : RecordUpTo(c[1], c[2], TRUE, MaxDefaultRecords)

SpecDefault == InitLimiter /\ [][NextDefault]_vars

(***************************************************************************)
(* Instagram likes called one after the other, each on a post of its own   *)
(* that is not liked yet, on pages that load, show the like button, take   *)
(* the click and show the post liked on the read-back.                     *)
(***************************************************************************)
E2ETargets == <<"t1", "t2", "t3">>

AllIdle == \A i \in Procs : proc[i].pc = "idle"

\* The next like is called once the one before has returned.
E2ELike(i) ==
  /\ AllIdle
  /\ calls < Len(E2ETargets)
  /\ Invoke(i, InstagramLike, E2ETargets[calls + 1], Len(E2ETargets))

\* rateLimiter.check('instagram', 'like') between two calls.
E2ECheck ==
  /\ AllIdle
  /\ CheckCall("instagram", "like")

NextE2E ==
  \/ \E i \in Procs : E2ELike(i)
  \/ \E i \in Procs : Navigate(i, TRUE, TRUE)
  \/ \E i \in Procs : Click(i, "done")
  \/ \E i \in Procs : Verify(i)
  \/ \E i \in Procs, writeOk \in BOOLEAN : Record(i, writeOk)
  \/ E2ECheck
  \/ Tick(SECOND_MS, MaxTicks)

SpecE2E == Init /\ [][NextE2E]_vars

(***************************************************************************)
(* BrowserManager: one browser, one context per platform created on        *)
(* demand with at most one page, and one session file per platform.  A     *)
(* context is modelled by its cookies and the localStorage of its site, a  *)
(* session file by its form, its cookies, its localStorage snapshot and    *)
(* its timestamps.  The sites set and clear cookies in an open context.    *)
(***************************************************************************)
MaxSessionTicks == 1 \* clock advances in one behaviour of SpecSession

\* const maxAge = 7 * 24 * 60 * 60 * 1000
SESSION_MAX_AGE == 7 * DAY_MS

SessionTickSteps == {SESSION_MAX_AGE, SESSION_MAX_AGE + SECOND_MS}

\* const criticalCookies
criticalCookies ==
  [p \in Platforms |-> CASE p = "linkedin"  -> "li_at"
                         [] p = "twitter"   -> "auth_token"
                         [] p = "instagram" -> "sessionid"]

\* A cookie of the platform's site that is not its critical cookie.
otherCookie ==
  [p \in Platforms |-> CASE p = "linkedin"  -> "JSESSIONID"
                         [] p = "twitter"   -> "ct0"
                         [] p = "instagram" -> "csrftoken"]

Cookie(name, value) == [name |-> name, value |-> value]

\* What the site of a platform leaves in a context's cookie jar: nothing; a
\* session (the critical cookie with a value); another cookie only; the
\* critical cookie with its value cleared, beside another cookie that has a
\* value.
Jars(p) ==
  {{},
   {Cookie(criticalCookies[p], "tok"), Cookie(otherCookie[p], "x")},
   {Cookie(otherCookie[p], "x")},
   {Cookie(criticalCookies[p], ""), Cookie(otherCookie[p], "x")}}

\* Variant of hasRequiredCookie: the cookie's value is not looked at.
hasCookieNamed(platform, cookies) ==
  \E c \in cookies : c.name = criticalCookies[platform]

\* cookies.some((c) => c.name === requiredCookie && c.value)
hasRequiredCookie(platform, cookies) ==
  \E c \in cookies : c.name = criticalCookies[platform] /\ c.value # ""

\* this.contexts.has(platform)
HasContext(ctxs, platform) ==
  \E i \in 1..Len(ctxs) : ctxs[i].platform = platform

\* await this.contexts.get(platform).cookies()
CookiesOf(ctxs, platform) ==
  LET i == CHOOSE i \in 1..Len(ctxs) : ctxs[i].platform = platform
  IN ctxs[i].cookies

\* getLocalStorage(platform): what the platform's page reads from
\* localStorage (only a page writes it, so it is empty without one).
getLocalStorage(ctxs, platform) ==
  LET i == CHOOSE i \in 1..Len(ctxs) : ctxs[i].platform = platform
  IN ctxs[i].storage

\* await context.close() / await page.close() for what the manager's maps
\* hold of a platform: closing a context closes the pages opened in it.
CloseHeld(o, platform) ==
  LET gone(k) ==
        /\ o[k].platform = platform
        /\ \/ o[k].held
           \/ o[k].kind = "page" /\ o[k].ctx \in DOMAIN o /\ o[o[k].ctx].held
  IN [k \in DOMAIN o |->
        IF gone(k) THEN [o[k] EXCEPT !.open = FALSE, !.held = FALSE]
        ELSE o[k]]

\* await this.browser.close(), after pages.clear() and contexts.clear(): the
\* browser closes every context and page it has, cached or not.
CloseAll(o) ==
  [k \in DOMAIN o |-> [o[k] EXCEPT !.open = FALSE, !.held = FALSE]]

\* this.contexts.delete(platform)
Delete(ctxs, platform) ==
  SelectSeq(ctxs, LAMBDA c : c.platform # platform)

\* saveSession(platform) at clock value t: the session files it leaves and
\* how it ended ("threw": writeFileSync threw and the exception left
\* saveSession).
saveSession(ss, ctxs, platform, t, writeOk) ==
  IF ~HasContext(ctxs, platform)
  THEN [sessions |-> ss, outcome |-> "nocontext"]
  ELSE LET cookies == CookiesOf(ctxs, platform)
       IN IF ~hasRequiredCookie(platform, cookies)
          THEN [sessions |-> ss, outcome |-> "skipped"]
          ELSE IF ~writeOk
               THEN [sessions |-> ss, outcome |-> "threw"]
               ELSE [sessions |->
                       [ss EXCEPT ![platform] =
                          [exists |-> TRUE, form |-> "session",
                           data |-> [cookies |-> cookies,
                                     localStorage |->
                                       getLocalStorage(ctxs, platform),
                                     createdAt |-> t, updatedAt |-> t]]],
                     outcome |-> "saved"]

\* Variant of restoreSession: a session whose age is exactly maxAge counts
\* as expired.
restoreSessionInclusive(f, t, readOk) ==
  IF ~f.exists THEN {}
  ELSE IF ~readOk \/ f.form = "unparseable" THEN {}
  ELSE IF f.form # "nostamp" /\ t - f.data.updatedAt >= SESSION_MAX_AGE
       THEN {}
  ELSE IF f.form = "nocookies" THEN {}
  ELSE f.data.cookies

\* restoreSession: the cookies added to a new context.  readOk is false when
\* readFileSync or addCookies throws.  JSON.parse throws on an unparseable
\* file; without updatedAt the age is NaN and "NaN > maxAge" is false;
\* without cookies "session.cookies.map" throws.  Every exception ends in
\* the catch block, which returns false.
restoreSession(f, t, readOk) ==
  IF ~f.exists THEN {}
  ELSE IF ~readOk \/ f.form = "unparseable" THEN {}
  ELSE IF f.form # "nostamp" /\ t - f.data.updatedAt > SESSION_MAX_AGE
       THEN {}
  ELSE IF f.form = "nocookies" THEN {}
  ELSE f.data.cookies

\* Variant of getContext: the cache is not consulted.
getContextAlwaysNew(b, ctxs, ss, platform, t, readOk) ==
  IF ~b
  THEN [contexts |-> ctxs, outcome |-> "threw", steps |-> <<>>]
  ELSE [contexts |->
          Append(Delete(ctxs, platform),
                 [platform |-> platform,
                  cookies |-> restoreSession(ss[platform], t, readOk),
                  storage |-> {}, stealth |-> 1]),
        outcome |-> "created",
        steps |-> <<"newContext", "applyStealthMode", "restoreSession",
                    "contexts.set">>]

\* Variant of getContext: a context is created without a browser.
getContextUnguarded(b, ctxs, ss, platform, t, readOk) ==
  IF HasContext(ctxs, platform)
  THEN [contexts |-> ctxs, outcome |-> "cached", steps |-> <<>>]
  ELSE [contexts |->
          Append(ctxs,
                 [platform |-> platform,
                  cookies |-> restoreSession(ss[platform], t, readOk),
                  storage |-> {}, stealth |-> 1]),
        outcome |-> "created",
        steps |-> <<"newContext", "applyStealthMode", "restoreSession",
                    "contexts.set">>]

\* Variant of getContext: the context is cached first and the stealth
\* scripts are forgotten.
getContextNoStealth(b, ctxs, ss, platform, t, readOk) ==
  IF ~b
  THEN [contexts |-> ctxs, outcome |-> "threw", steps |-> <<>>]
  ELSE IF HasContext(ctxs, platform)
  THEN [contexts |-> ctxs, outcome |-> "cached", steps |-> <<>>]
  ELSE [contexts |->
          Append(ctxs,
                 [platform |-> platform,
                  cookies |-> restoreSession(ss[platform], t, readOk),
                  storage |-> {}, stealth |-> 0]),
        outcome |-> "created",
        steps |-> <<"newContext", "contexts.set", "restoreSession">>]

\* getContext(platform) at clock value t: the contexts it leaves, how it
\* ended and the calls it made on the way.  Without a browser it throws;
\* with a cached context it returns that one; otherwise it creates a
\* context, applies the stealth scripts, restores the session into it and
\* caches it.  A new context has an empty localStorage: restoreSession adds
\* cookies only.  "stealth" counts the applyStealthMode calls made on the
\* context.
getContext(b, ctxs, ss, platform, t, readOk) ==
  IF ~b
  THEN [contexts |-> ctxs, outcome |-> "threw", steps |-> <<>>]
  ELSE IF HasContext(ctxs, platform)
  THEN [contexts |-> ctxs, outcome |-> "cached", steps |-> <<>>]
  ELSE [contexts |->
          Append(ctxs,
                 [platform |-> platform,
                  cookies |-> restoreSession(ss[platform], t, readOk),
                  storage |-> {}, stealth |-> 1]),
        outcome |-> "created",
        steps |-> <<"newContext", "applyStealthMode", "restoreSession",
                    "contexts.set">>]

\* getPage(platform) at clock value t: an open cached page is returned as it
\* is, before anything else is looked at; otherwise the page is opened in the
\* context that getContext returns, and an exception of getContext leaves
\* getPage before a page is opened.
getPage(b, ctxs, pgs, ss, platform, t, readOk) ==
  IF platform \in pgs
  THEN [contexts |-> ctxs, pages |-> pgs, outcome |-> "cached"]
  ELSE LET c == getContext(b, ctxs, ss, platform, t, readOk)
       IN IF c.outcome = "threw"
          THEN [contexts |-> ctxs, pages |-> pgs, outcome |-> "threw"]
          ELSE [contexts |-> c.contexts, pages |-> pgs \cup {platform},
                outcome |-> "created"]

\* timeout: 30000, in both page.goto calls
NAV_TIMEOUT == 30000

\* await page.goto(url, { waitUntil, timeout: 30000 })
Goto(waitUntil) == [waitUntil |-> waitUntil, timeout |-> NAV_TIMEOUT]

\* Variant of navigate: a failed retry is retried once more.
navigateRetryAgain(b, ctxs, pgs, ss, platform, t, readOk, primaryOk, retryOk) ==
  LET g == getPage(b, ctxs, pgs, ss, platform, t, readOk)
  IN [contexts |-> g.contexts, pages |-> g.pages,
      attempts |-> IF g.outcome = "threw" THEN <<>>
                   ELSE IF primaryOk THEN <<Goto("domcontentloaded")>>
                   ELSE IF retryOk
                   THEN <<Goto("domcontentloaded"), Goto("commit")>>
                   ELSE <<Goto("domcontentloaded"), Goto("commit"),
                          Goto("commit")>>,
      outcome |-> IF g.outcome # "threw" /\ (primaryOk \/ retryOk)
                  THEN "loaded" ELSE "threw"]

\* Variant of navigate: a page that failed to load twice is closed and
\* forgotten.
navigateClosePage(b, ctxs, pgs, ss, platform, t, readOk, primaryOk, retryOk) ==
  LET g == getPage(b, ctxs, pgs, ss, platform, t, readOk)
      failed == g.outcome # "threw" /\ ~primaryOk /\ ~retryOk
  IN [contexts |-> g.contexts,
      pages |-> IF failed THEN g.pages \ {platform} ELSE g.pages,
      attempts |-> IF g.outcome = "threw" THEN <<>>
                   ELSE IF primaryOk THEN <<Goto("domcontentloaded")>>
                   ELSE <<Goto("domcontentloaded"), Goto("commit")>>,
      outcome |-> IF g.outcome # "threw" /\ (primaryOk \/ retryOk)
                  THEN "loaded" ELSE "threw"]

\* navigate(platform, url): the page is fetched with getPage, whose
\* exception leaves navigate before any load attempt; then page.goto waits
\* for 'domcontentloaded' and, in the catch block of that attempt, for
\* 'commit'; an exception of the second page.goto leaves navigate.
\* primaryOk and retryOk say whether the first and the second page.goto
\* return.  "attempts" are the page.goto calls made, in order.
navigate(b, ctxs, pgs, ss, platform, t, readOk, primaryOk, retryOk) ==
  LET g == getPage(b, ctxs, pgs, ss, platform, t, readOk)
  IN [contexts |-> g.contexts, pages |-> g.pages,
      attempts |-> IF g.outcome = "threw" THEN <<>>
                   ELSE IF primaryOk THEN <<Goto("domcontentloaded")>>
                   ELSE <<Goto("domcontentloaded"), Goto("commit")>>,
      outcome |-> IF g.outcome # "threw" /\ (primaryOk \/ retryOk)
                  THEN "loaded" ELSE "threw"]

\* initialize(): launches the browser; with a browser already launched it
\* returns at once, changing nothing.
Initialize ==
  /\ ~browser
  /\ browser' = TRUE
  /\ last' = NoCall
  /\ UNCHANGED <<wsManager, overlapVars,
                 now, ticks, calls, quotaVars, contexts, sessions, pages>>

\* A getContext(platform) call that creates a context (without a browser it
\* throws, and with a cached context it returns that one, changing
\* nothing).
GetContext(platform, readOk) ==
  LET r == getContext(browser, contexts, sessions, platform, now, readOk)
  IN /\ r.outcome = "created"
     /\ contexts' = r.contexts
     /\ last' = NoCall
     /\ UNCHANGED <<wsManager, overlapVars,
                    now, ticks, calls, quotaVars, browser, sessions, pages>>

\* The site replaces the cookies of an open context (login, logout, expiry).
SetCookies(platform, jar) ==
  /\ HasContext(contexts, platform)
  /\ calls < MaxCalls
  /\ calls' = calls + 1
  /\ contexts' = [i \in 1..Len(contexts) |->
                    IF contexts[i].platform = platform
                    THEN [contexts[i] EXCEPT !.cookies = jar]
                    ELSE contexts[i]]
  /\ last' = NoCall
  /\ UNCHANGED <<wsManager, overlapVars,
                 now, ticks, quotaVars, browser, sessions, pages>>

\* await browserManager.saveSession(platform); for a platform without a
\* context it returns at once, changing nothing.
SaveSession(platform, writeOk) ==
  LET r == saveSession(sessions, contexts, platform, now, writeOk)
  IN /\ r.outcome # "nocontext"
     /\ sessions' = r.sessions
     /\ last' = IF r.outcome \in {"skipped", "saved"}
                THEN [NoCall EXCEPT !.op = r.outcome, !.platform = platform]
                ELSE NoCall
     /\ UNCHANGED <<wsManager, overlapVars,
                    now, ticks, calls, quotaVars, browser, contexts, pages>>

\* closeContext(platform): the platform's page and context are closed and
\* forgotten; for a platform without a context it changes nothing.
CloseContext(platform) ==
  /\ HasContext(contexts, platform)
  /\ pages' = pages \ {platform}
  /\ contexts' = Delete(contexts, platform)
  /\ opened' = CloseHeld(opened, platform)
  /\ last' = NoCall
  /\ UNCHANGED <<wsManager, inflight, now, ticks, calls, quotaVars, browser,
                 sessions>>

\* The loop of shutdown() over this.contexts.keys(): saveSession for each, in
\* insertion order, until one throws.
RECURSIVE SaveAll(_, _, _, _, _)
SaveAll(ss, ctxs, rest, t, failing) ==
  IF rest = <<>>
  THEN [sessions |-> ss, outcome |-> "done"]
  ELSE LET r == saveSession(ss, ctxs, Head(rest).platform, t,
                            Head(rest).platform \notin failing)
       IN IF r.outcome = "threw"
          THEN r
          ELSE SaveAll(r.sessions, ctxs, Tail(rest), t, failing)

\* shutdown(): the sessions are saved, then the pages, the contexts and the
\* browser are closed and the maps cleared; an exception of saveSession ends
\* shutdown where it is.
Shutdown(failing) ==
  LET r == SaveAll(sessions, contexts, contexts, now, failing)
  IN /\ sessions' = r.sessions
     /\ pages' = IF r.outcome = "threw" THEN pages ELSE {}
     /\ contexts' = IF r.outcome = "threw" THEN contexts ELSE <<>>
     /\ browser' = IF r.outcome = "threw" THEN browser ELSE FALSE
     /\ opened' = IF r.outcome = "threw" THEN opened ELSE CloseAll(opened)
     /\ last' = NoCall
     /\ UNCHANGED <<wsManager, inflight, now, ticks, calls, quotaVars>>

NextSession ==
  \/ Initialize
  \/ \E p \in Platforms :
       \E readOk \in IF sessions[p].exists THEN BOOLEAN ELSE {TRUE} :
         GetContext(p, readOk)
  \/ \E p \in Platforms : \E j \in Jars(p) : SetCookies(p, j)
  \/ \E p \in Platforms, writeOk \in BOOLEAN : SaveSession(p, writeOk)
  \/ \E p \in Platforms : CloseContext(p)
  \/ \E f \in {{}} \cup {{contexts[i].platform} : i \in 1..Len(contexts)} :
       Shutdown(f)
  \/ \E d \in SessionTickSteps : Tick(d, MaxSessionTicks)

\* The browser manager is constructed before any page has been opened.
InitSession == Init /\ world = {}

SpecSession == InitSession /\ [][NextSession]_vars

(***************************************************************************)
(* A process that starts with session files left by an earlier process:    *)
(* written by saveSession, or damaged since.  Contexts and pages are       *)
(* requested one call at a time, and each call is remembered in "last"     *)
(* until the next action.                                                  *)
(***************************************************************************)
\* What a page's scripts leave in localStorage.
LocalItems == {<<"k", "v">>}

\* The session files of platform p that an earlier process can have left
\* at clock value 0: none, a BrowserSession of a logged-in context with or
\* without localStorage, or a damaged file.
LeftFiles(p) ==
  LET jar == {Cookie(criticalCookies[p], "tok"), Cookie(otherCookie[p], "x")}
      F(form, cookies, ls) ==
        [exists |-> TRUE, form |-> form,
         data |-> [cookies |-> cookies, localStorage |-> ls,
                   createdAt |-> 0, updatedAt |-> 0]]
  IN {NoSession, F("session", jar, {}), F("session", jar, LocalItems),
      F("unparseable", {}, {}), F("nocookies", {}, {}),
      F("nostamp", jar, {})}

\* The platforms the process is asked to work on.
RestartPlatforms == {"linkedin", "twitter"}

InitRestart ==
  /\ now = 0
  /\ ticks = 0
  /\ file = [exists |-> FALSE, data |-> EmptyStore]
  /\ store = load(file)
  /\ proc = [i \in Procs |-> Idle]
  /\ res = Idle
  /\ world = {}
  /\ calls = 0
  /\ recorded = EmptyStore
  /\ acked = EmptyStore
  /\ last = NoCall
  /\ browser = FALSE
  /\ contexts = <<>>
  /\ \E p \in RestartPlatforms : \E f \in LeftFiles(p) :
       sessions = [q \in Platforms |-> IF q = p THEN f ELSE NoSession]
  /\ pages = {}
  /\ silent = FALSE
  /\ notifierInstance = FALSE
  /\ notified = <<>>
  /\ opened = <<>>
  /\ inflight = [i \in Procs |-> NoFlight]
  /\ wsManager = NoServer

\* await browserManager.getContext(platform), whatever its outcome.
GetContextCall(platform, readOk) ==
  LET r == getContext(browser, contexts, sessions, platform, now, readOk)
  IN /\ contexts' = r.contexts
     /\ last' = [op |-> "getContext", platform |-> platform,
                 outcome |-> r.outcome, steps |-> r.steps,
                 readOk |-> readOk]
     /\ UNCHANGED <<wsManager, overlapVars,
                    now, ticks, calls, quotaVars, browser, sessions, pages>>

\* await browserManager.getPage(platform), whatever its outcome.
GetPageCall(platform, readOk) ==
  LET r == getPage(browser, contexts, pages, sessions, platform, now, readOk)
  IN /\ contexts' = r.contexts
     /\ pages' = r.pages
     /\ last' = [op |-> "getPage", platform |-> platform,
                 outcome |-> r.outcome, steps |-> <<>>, readOk |-> readOk]
     /\ UNCHANGED <<wsManager, overlapVars,
                    now, ticks, calls, quotaVars, browser, sessions>>

\* A script of the platform's open page writes localStorage.
SetStorage(platform) ==
  /\ platform \in pages
  /\ getLocalStorage(contexts, platform) # LocalItems
  /\ contexts' = [i \in 1..Len(contexts) |->
                    IF contexts[i].platform = platform
                    THEN [contexts[i] EXCEPT !.storage = LocalItems]
                    ELSE contexts[i]]
  /\ last' = NoCall
  /\ UNCHANGED <<wsManager, overlapVars,
                 now, ticks, calls, quotaVars, browser, sessions, pages>>

NextRestart ==
  \/ Initialize
  \/ \E p \in RestartPlatforms :
       \E readOk \in IF sessions[p].exists THEN BOOLEAN ELSE {TRUE} :
         GetContextCall(p, readOk)
  \/ \E p \in RestartPlatforms :
       \E readOk \in IF sessions[p].exists THEN BOOLEAN ELSE {TRUE} :
         GetPageCall(p, readOk)
  \/ \E p \in RestartPlatforms : SetStorage(p)
  \/ \E p \in RestartPlatforms : CloseContext(p)
  \/ Shutdown({})
  \/ \E d \in SessionTickSteps : Tick(d, MaxSessionTicks)

SpecRestart == InitRestart /\ [][NextRestart]_vars

(***************************************************************************)
(* The handlers on top of the BrowserManager: actions are invoked one at a *)
(* time, and the navigation of each goes through BrowserManager.navigate.  *)
(***************************************************************************)
\* How a navigate call ended: the page loaded, getPage threw before any
\* load attempt ("nopage"), or both load attempts failed.
NavOutcome(r) ==
  IF r.outcome = "loaded" THEN "loaded"
  ELSE IF r.attempts = <<>> THEN "nopage"
  ELSE "failed"

\* A handler is invoked while no other is running.
NavInvoke(i, h, target) ==
  /\ AllIdle
  /\ Invoke(i, h, target, MaxCalls)

\* this.navigate(url) in a handler, through browserManager.navigate, and
\* the element lookups that follow it.  "after" is how the navigate call
\* made before this one on the same platform ended.
NavigateCall(i, primaryOk, retryOk, found) ==
  /\ proc[i].pc = "locate"
  /\ LET p == proc[i].h.platform
         r == navigate(browser, contexts, pages, sessions, p, now, TRUE,
                       primaryOk, retryOk)
         loaded == r.outcome = "loaded"
     IN /\ contexts' = r.contexts
        /\ pages' = r.pages
        /\ last' = [op |-> "navigate", platform |-> p,
                    attempts |-> r.attempts, outcome |-> NavOutcome(r),
                    primaryOk |-> primaryOk, call |-> calls,
                    after |-> IF last.op = "navigate" /\ last.platform = p
                              THEN last.outcome ELSE "none"]
        /\ Step(i, Locate([proc[i] EXCEPT
                             !.page = TRUE,
                             !.was = loaded /\ Done(proc[i]) \in world],
                          loaded, found))
  /\ UNCHANGED <<wsManager, overlapVars, now, ticks, store, file, world, calls,
                 recorded, acked, browser, sessions>>

NextNav ==
  \/ Initialize
  \/ \E i \in Procs, h \in Handlers, t \in Targets : NavInvoke(i, h, t)
  \/ \E i \in Procs, primaryOk \in BOOLEAN, retryOk \in BOOLEAN,
        found \in BOOLEAN :
          NavigateCall(i, primaryOk, retryOk, found)
  \/ \E i \in Procs, o \in {"done", "ignored", "thrown"} : Click(i, o)
  \/ \E i \in Procs : Verify(i)
  \/ \E i \in Procs : Record(i, TRUE)

SpecNav == Init /\ [][NextNav]_vars

(***************************************************************************)
(* The handlers with their clicks tier by tier (SpecClick) and with their  *)
(* notifications (SpecNotify): one caller invokes actions one at a time,   *)
(* in SpecNotify in a process that has or has not initialised a notifier   *)
(* and has or has not set CLAWSOCIAL_SILENT.                               *)
(***************************************************************************)
\* What becomes of the promise of a notifier.notify call: it resolves to
\* true or to false, or it rejects.
Settled == {"true", "false", "rejected"}

InitNotify ==
  /\ now = 0
  /\ ticks = 0
  /\ file = [exists |-> FALSE, data |-> EmptyStore]
  /\ store = load(file)
  /\ proc = [i \in Procs |-> Idle]
  /\ res = Idle
  /\ world \in Worlds
  /\ calls = 0
  /\ recorded = EmptyStore
  /\ acked = EmptyStore
  /\ last = NoCall
  /\ browser = FALSE
  /\ contexts = <<>>
  /\ sessions = [p \in Platforms |-> NoSession]
  /\ pages = {}
  /\ silent \in BOOLEAN
  /\ notifierInstance \in BOOLEAN
  /\ notified = <<>>
  /\ opened = <<>>
  /\ inflight = [i \in Procs |-> NoFlight]
  /\ wsManager = NoServer

\* The promise of the k-th notifier.notify call settles.
Settle(k, state) ==
  /\ k \in 1..Len(notified)
  /\ notified[k].state = "pending"
  /\ notified' = [notified EXCEPT ![k].state = state]
  /\ UNCHANGED <<wsManager, overlapVars,
                 bmVars, now, ticks, store, file, proc, res, world, calls,
                 recorded, acked, last, silent, notifierInstance>>

\* The caller whose actions are followed.
Caller == 1

NextClick ==
  \/ E2ELike(Caller)
  \/ Navigate(Caller, TRUE, TRUE)
  \/ \E scrollOk \in BOOLEAN, ok1 \in BOOLEAN, ok2 \in BOOLEAN,
        ok3 \in BOOLEAN, took \in BOOLEAN :
          ClickHuman(Caller, scrollOk, ok1, ok2, ok3, took)
  \/ Verify(Caller)
  \/ Record(Caller, TRUE)

SpecClick == Init /\ [][NextClick]_vars

\* The actions the caller asks for: likes and follows of one target.
NotifyHandlers == {InstagramLike, InstagramFollow}

NextNotify ==
  \/ \E h \in NotifyHandlers : NavInvoke(Caller, h, "t1")
  \/ \E loaded \in BOOLEAN, found \in BOOLEAN :
       Navigate(Caller, loaded, found)
  \/ \E o \in {"done", "ignored", "thrown"} : Click(Caller, o)
  \/ Verify(Caller)
  \/ Record(Caller, TRUE)
  \/ \E k \in 1..Len(notified), state \in Settled : Settle(k, state)

SpecNotify == InitNotify /\ [][NextNotify]_vars

(***************************************************************************)
(* Handlers on a session that may have lost its login (SpecAuth)           *)
(***************************************************************************)
\* TwitterHandler.like: checks and records "like", looks for the unlike
\* button first and reads the page back after the click.
TwitterLike ==
  [platform |-> "twitter", action |-> "like", quota |-> "like",
   already |-> TRUE, verify |-> TRUE]

\* The handlers that look at page.url() after the navigation and return
\* when it is a login URL.
checksLogin(h) == h = TwitterLike

AuthHandlers == {TwitterLike, InstagramLike}

\* The statements from this.navigate(url) to the element lookups on a page
\* that the site may have redirected to its login page, which has none of
\* the elements the handlers look for.
LocateAuth(p, loaded, redirected, found) ==
  IF ~loaded
  THEN catchError(p)
  ELSE IF redirected
       THEN IF checksLogin(p.h)
            THEN createErrorResult(p, "Session expired - redirected to login")
            ELSE createErrorResult(p, "not found")
       ELSE Locate(p, TRUE, found)

NavigateAuth(i, loaded, redirected, found) ==
  /\ proc[i].pc = "locate"
  /\ Step(i, LocateAuth([proc[i] EXCEPT
                           !.page = TRUE,
                           !.was = loaded /\ ~redirected
                                   /\ Done(proc[i]) \in world],
                        loaded, redirected, found))
  /\ last' = [op |-> "locate", platform |-> proc[i].h.platform,
              loaded |-> loaded, redirected |-> loaded /\ redirected,
              call |-> calls]
  /\ UNCHANGED <<wsManager, overlapVars,
                 bmVars, now, ticks, store, file, world, calls, recorded,
                 acked>>

NextAuth ==
  \/ \E h \in AuthHandlers, t \in Targets : NavInvoke(Caller, h, t)
  \/ \E loaded \in BOOLEAN, redirected \in BOOLEAN, found \in BOOLEAN :
       NavigateAuth(Caller, loaded, redirected, found)
  \/ \E o \in {"done", "ignored", "thrown"} : Click(Caller, o)
  \/ Verify(Caller)
  \/ \E writeOk \in BOOLEAN : Record(Caller, writeOk)

SpecAuth == Init /\ [][NextAuth]_vars

(***************************************************************************)
(* Properties of the RateLimiter (SpecLimiter)                             *)
(***************************************************************************)
Windows == Platforms \X StoreKeys

\* The number of entries of s equal to ts.
Count(s, ts) == Cardinality({i \in 1..Len(s) : s[i] = ts})

\* Every entry of s occurs in u at least as often as in s.
Within(s, u) == \A i \in 1..Len(s) : Count(s, s[i]) <= Count(u, s[i])

\* C1: for every platform P and action family F, when exactly N actions
\* recorded for (P,F) (by this limiter, or loaded by it at construction) have
\* timestamps inside the trailing 24 hours, check(P,F) returns
\* remaining = max(0, ceiling(P,F) - N).
C1_Remaining ==
  \A w \in Windows :
    LET N == Len(InWindow(recorded[w[1]][w[2]], now))
    IN check(store, w[1], w[2], now).status.remaining
         = Max(0, getLimit(w[1], w[2]) - N)

\* A check has just been made on a window that holds an entry inside the
\* trailing 24 hours and an entry that has left it.
C1_Witness ==
  /\ last.op = "check"
  /\ LET w == recorded[last.platform][getKey(last.action)]
     IN /\ Len(InWindow(w, now)) >= 1
        /\ Len(InWindow(w, now)) < Len(w)

C9_Pruning ==
  \A w \in Windows :
    LET all == recorded[w[1]][w[2]]
        kept == check(store, w[1], w[2], now).store[w[1]][w[2]]
    IN /\ kept = InWindow(all, now)
       /\ Count(kept, now - DAY_MS + SECOND_MS)
            = Count(all, now - DAY_MS + SECOND_MS)
       /\ Count(kept, now - DAY_MS - SECOND_MS) = 0

\* A check has just read a window with one entry aged 24h + 1s, which it
\* dropped, and one aged 24h - 1s, which it kept.
C9_Witness ==
  /\ last.op = "check"
  /\ LET p == last.platform
         k == getKey(last.action)
     IN /\ Count(recorded[p][k], now - DAY_MS - SECOND_MS) = 1
        /\ Count(recorded[p][k], now - DAY_MS + SECOND_MS) = 1
        /\ store[p][k] = <<now - DAY_MS + SECOND_MS>>

C2_NoBypass ==
  \A w \in Windows :
    Len(InWindow(recorded[w[1]][w[2]], now)) <= getLimit(w[1], w[2])

\* C3: when the quota check at the start of a handler reports allowed = false,
\* the handler returns the failure result "Rate limit exceeded" at once: no
\* page was requested, nothing was clicked, nothing was recorded, and the
\* result is returned, not thrown; and no handler is past its first statement
\* after a check that disallowed it.
C3_RateLimited ==
  /\ res.pc = "done" /\ ~res.allowed =>
       /\ ~res.success
       /\ res.error = "Rate limit exceeded"
       /\ ~res.page /\ ~res.clicked /\ ~res.verified /\ ~res.recorded
  /\ \A i \in Procs : proc[i].pc # "idle" => proc[i].allowed

\* A handler has returned after a check that disallowed the action.
C3_Witness ==
  /\ res.pc = "done"
  /\ ~res.allowed
  /\ Len(recorded[res.h.platform][getKey(res.h.quota)])
       >= getLimit(res.h.platform, getKey(res.h.quota))

\* C4: for every action type, the action is recorded against the quota only
\* after the read-back has confirmed it; and a handler that returns because
\* the read-back failed or the element was not found has recorded nothing.
C4_RecordAfterVerify ==
  /\ res.pc = "done" /\ res.recorded => res.verified
  /\ res.pc = "done" /\ res.error \in {"action failed", "not found"} =>
       ~res.recorded

\* C6 as claimed: every handler that has a desired state to look for (liked,
\* following, connected), called on a target that is already in
\* that state, returns success without a click and without recording, unless
\* the navigation failed.
C6_AlreadyDone ==
  res.pc = "done" /\ res.h.already /\ res.before /\ res.error # "Error" =>
    res.success /\ ~res.clicked /\ ~res.recorded

\* C6 as amended: a like, follow or connect that its quota check
\* allowed looks, once its page has loaded and before any click, for the
\* mark of the target being in the desired state already; when the mark is
\* there the handler returns success, without a click and without recording.
\* (A call that the quota check disallows returns "Rate limit exceeded",
\* whatever the target's state.)
C6_AlreadyDoneAllowed ==
  res.pc = "done" /\ res.h.already /\ res.was =>
    /\ res.allowed
    /\ res.success /\ ~res.clicked /\ ~res.verified /\ ~res.recorded

\* The second of two follow calls on a target that was followed before the
\* first has returned success, and nothing has been recorded.
C6_Witness ==
  /\ res.pc = "done"
  /\ res.h = InstagramFollow
  /\ res.before /\ res.was /\ res.success
  /\ calls = 2
  /\ \A i \in Procs : proc[i].pc = "idle"
  /\ recorded = EmptyStore

(***************************************************************************)
(* Properties of sequential likes (SpecE2E)                                *)
(***************************************************************************)
\* C5: with a ceiling of 2 for "like" on Instagram and an empty window,
\* three sequential like calls on distinct posts that are not liked yet and
\* that each verify return success, success and the failure "Rate limit
\* exceeded", in this order, and a check after the third reports
\* remaining = 0.
C5_ThreeLikes ==
  /\ getLimit("instagram", "like") = 2
  /\ AllIdle /\ calls \in {1, 2} =>
       /\ res.h = InstagramLike /\ res.target = E2ETargets[calls]
       /\ res.success /\ res.verified /\ res.recorded
       /\ Len(recorded["instagram"]["like"]) = calls
  /\ AllIdle /\ calls = 3 =>
       /\ res.h = InstagramLike /\ res.target = E2ETargets[3]
       /\ ~res.success /\ res.error = "Rate limit exceeded"
       /\ check(store, "instagram", "like", now).status.remaining = 0

\* The third like has returned and a check has been made after it.
C5_Witness ==
  /\ AllIdle
  /\ calls = 3
  /\ res.target = "t3" /\ ~res.success
  /\ last.op = "check"
  /\ Len(store["instagram"]["like"]) = 2

\* C17: a failure to write the quota file during record is swallowed: the
\* action that recorded returns its success result all the same, the
\* in-memory window holds every timestamp recorded in this process, written
\* to the file or not, and every later check counts them all.
C17_WriteFailureSwallowed ==
  /\ store["instagram"]["like"] = recorded["instagram"]["like"]
  /\ \A k \in 1..Len(acked["instagram"]["like"]) :
       \E j \in 1..Len(recorded["instagram"]["like"]) :
         recorded["instagram"]["like"][j] = acked["instagram"]["like"][k]
  /\ check(store, "instagram", "like", now).status.remaining
       = Max(0, getLimit("instagram", "like")
                  - Len(recorded["instagram"]["like"]))
  /\ AllIdle /\ calls \in {1, 2} =>
       /\ res.success /\ res.recorded
       /\ Len(recorded["instagram"]["like"]) = calls

\* Both likes were recorded while the quota file could not be written, the
\* second like returned success, and a check made after the clock advanced
\* has found the quota used up.
C17_Witness ==
  /\ AllIdle
  /\ calls = 2
  /\ res.success /\ res.recorded
  /\ acked["instagram"]["like"] = <<>>
  /\ ~file.exists
  /\ Len(store["instagram"]["like"]) = 2
  /\ last.op = "check"
  /\ now > store["instagram"]["like"][2]
  /\ check(store, "instagram", "like", now).status.remaining = 0

(***************************************************************************)
(* Properties of the BrowserManager's sessions (SpecSession)               *)
(***************************************************************************)
\* The cookies hold the platform's authentication cookie, with a value.
LoggedIn(p, cookies) ==
  \/ p = "linkedin"  /\ \E c \in cookies : c.name = "li_at" /\ c.value # ""
  \/ p = "twitter"   /\ \E c \in cookies : c.name = "auth_token" /\ c.value # ""
  \/ p = "instagram" /\ \E c \in cookies : c.name = "sessionid" /\ c.value # ""

\* C7: saveSession never writes the platform's session file when the
\* context's cookies do not hold the platform's critical cookie (li_at,
\* auth_token, sessionid) with a non-empty value: the call is skipped without
\* an error and leaves every session file as it was; so a session file never
\* holds a logged-out session, whatever was saved before.
C7_NoDowngrade ==
  /\ \A p \in Platforms :
       sessions[p].exists => LoggedIn(p, sessions[p].data.cookies)
  /\ \A p \in Platforms, writeOk \in BOOLEAN :
       HasContext(contexts, p) /\ ~LoggedIn(p, CookiesOf(contexts, p)) =>
         saveSession(sessions, contexts, p, now, writeOk)
           = [sessions |-> sessions, outcome |-> "skipped"]
  /\ last.op = "skipped" =>
       /\ HasContext(contexts, last.platform)
       /\ ~LoggedIn(last.platform, CookiesOf(contexts, last.platform))
  /\ last.op = "saved" =>
       /\ LoggedIn(last.platform, CookiesOf(contexts, last.platform))
       /\ sessions[last.platform].data.cookies
            = CookiesOf(contexts, last.platform)

\* saveSession has just been skipped for a context whose critical cookie has
\* lost its value, and the session saved before is still on disk.
C7_Witness ==
  /\ last.op = "skipped"
  /\ HasContext(contexts, last.platform)
  /\ \E c \in CookiesOf(contexts, last.platform) :
       c.name = criticalCookies[last.platform] /\ c.value = ""
  /\ sessions[last.platform].exists
  /\ LoggedIn(last.platform, sessions[last.platform].data.cookies)

(***************************************************************************)
(* Properties of a restarted process (SpecRestart)                         *)
(***************************************************************************)
\* getContext has just created the context of platform p, and restoreSession
\* could read the BrowserSession in p's session file.
RestoredFrom(p) ==
  /\ last.op = "getContext"
  /\ last.platform = p
  /\ last.outcome = "created"
  /\ last.readOk
  /\ sessions[p].exists
  /\ sessions[p].form = "session"

\* C11: when a context is created, a persisted session whose updatedAt is
\* more than 7 days before the current time is treated as not found (the new
\* context gets none of its cookies) and a session at most 7 days old is
\* restored (the new context gets all of its cookies); creating a context
\* leaves every session file as it is, neither deleted nor modified.
C11_SoftExpiry ==
  /\ [](\A p \in Platforms :
          RestoredFrom(p) =>
            CookiesOf(contexts, p) =
              IF now - sessions[p].data.updatedAt > SESSION_MAX_AGE
              THEN {}
              ELSE sessions[p].data.cookies)
  /\ [][\A p \in Platforms :
          ~HasContext(contexts, p) /\ HasContext(contexts', p) =>
            sessions' = sessions]_vars

\* A context has just been created while the session file, which holds
\* cookies, was more than 7 days old: the context has no cookie and the file
\* is on disk.
C11_Witness ==
  \E p \in Platforms :
    /\ RestoredFrom(p)
    /\ now - sessions[p].data.updatedAt > SESSION_MAX_AGE
    /\ sessions[p].data.cookies # {}
    /\ CookiesOf(contexts, p) = {}

\* The session file of platform p is on disk and is not a BrowserSession.
Malformed(p) == sessions[p].exists /\ sessions[p].form # "session"

\* C12: a malformed session file (unparseable, or parseable but lacking the
\* expected fields) is treated as not found: on an initialized manager
\* getContext does not throw for its platform but creates and caches a
\* context, and that context has none of the file's cookies.
C12_MalformedIsNotFound ==
  \A p \in Platforms :
    Malformed(p) =>
      /\ \A readOk \in BOOLEAN :
           browser /\ ~HasContext(contexts, p) =>
             LET r == getContext(browser, contexts, sessions, p, now, readOk)
             IN r.outcome = "created" /\ HasContext(r.contexts, p)
      /\ last.op = "getContext" /\ last.platform = p
           /\ last.outcome = "created" =>
             HasContext(contexts, p) /\ CookiesOf(contexts, p) = {}

\* C13: session state survives a restart: when getContext creates a context
\* from a session file that saveSession wrote at most 7 days earlier, the
\* context it returns holds every saved cookie and the saved localStorage
\* snapshot.
C13_SurvivesRestart ==
  \A p \in Platforms :
    RestoredFrom(p) /\ now - sessions[p].data.updatedAt <= SESSION_MAX_AGE =>
      /\ CookiesOf(contexts, p) = sessions[p].data.cookies
      /\ getLocalStorage(contexts, p) = sessions[p].data.localStorage

C18_Uninitialized ==
  /\ ~browser => contexts = <<>> /\ pages = {}
  /\ \A p \in Platforms, readOk \in BOOLEAN :
       ~browser =>
         /\ getContext(browser, contexts, sessions, p, now, readOk)
              = [contexts |-> contexts, outcome |-> "threw", steps |-> <<>>]
         /\ getPage(browser, contexts, pages, sessions, p, now, readOk)
              = [contexts |-> contexts, pages |-> pages, outcome |-> "threw"]
  /\ last.op \in {"getContext", "getPage"} =>
       /\ last.outcome = "threw" <=> ~browser
       /\ last.outcome = "threw" => contexts = <<>> /\ pages = {}

\* getPage has just thrown on a manager whose shutdown completed after it
\* had saved a session.
C18_Witness ==
  /\ last.op = "getPage"
  /\ last.outcome = "threw"
  /\ ~browser
  /\ sessions[last.platform].exists
  /\ sessions[last.platform].data.updatedAt > 0

\* C21: every context has had the stealth scripts applied exactly once, and
\* that before it was cached: a cached context, and so every context that
\* getContext returns and every context a page is opened in, has them; the
\* getContext call that creates a context applies them once, after
\* newContext and before contexts.set.
C21_StealthFirst ==
  /\ \A i \in 1..Len(contexts) : contexts[i].stealth = 1
  /\ \A p \in pages : HasContext(contexts, p)
  /\ \A p \in Platforms, readOk \in BOOLEAN :
       LET g == getPage(browser, contexts, pages, sessions, p, now, readOk)
       IN \A i \in 1..Len(g.contexts) : g.contexts[i].stealth = 1
  /\ last.op = "getContext" /\ last.outcome = "created" =>
       LET at(step) == {k \in 1..Len(last.steps) : last.steps[k] = step}
       IN /\ Cardinality(at("applyStealthMode")) = 1
          /\ Cardinality(at("contexts.set")) = 1
          /\ \A k \in at("applyStealthMode"), j \in at("newContext") : j < k
          /\ \A k \in at("applyStealthMode"), j \in at("contexts.set") :
               k < j

\* getPage has just opened the first page of a platform, in a context that
\* it had getContext create with the session restored.
C21_Witness ==
  /\ last.op = "getPage"
  /\ last.outcome = "created"
  /\ last.platform \in pages
  /\ CookiesOf(contexts, last.platform) # {}
  /\ \E i \in 1..Len(contexts) :
       contexts[i].platform = last.platform /\ contexts[i].stealth = 1

(***************************************************************************)
(* Properties of closing and shutting down (SpecSession)                   *)
(***************************************************************************)
\* C15: whenever the context of a platform is closed, by closeContext or by
\* shutdown, saveSession has been attempted for it first: if the context is
\* logged in, its cookies are in the platform's session file afterwards,
\* unless the write failed.
C15_SavedBeforeClose ==
  [][\A p \in Platforms :
       (/\ HasContext(contexts, p)
        /\ ~HasContext(contexts', p)
        /\ LoggedIn(p, CookiesOf(contexts, p)))
       => /\ sessions'[p].exists
          /\ sessions'[p].data.cookies = CookiesOf(contexts, p)
          /\ sessions'[p].data.updatedAt = now]_vars

\* C16: saving on the way out is best-effort: when saveSession fails for the
\* platforms in f during shutdown, shutdown still saves every other
\* logged-in context, closes every page and context and closes the browser.
C16_ShutdownBestEffort ==
  [][\A f \in SUBSET Platforms :
       Shutdown(f) =>
         /\ ~browser'
         /\ contexts' = <<>>
         /\ pages' = {}
         /\ \A p \in Platforms \ f :
              HasContext(contexts, p) /\ LoggedIn(p, CookiesOf(contexts, p))
                => /\ sessions'[p].exists
                   /\ sessions'[p].data.cookies = CookiesOf(contexts, p)
                   /\ sessions'[p].data.updatedAt = now]_vars

C20_NavigationFailure ==
  /\ last.op = "navigate" /\ last.outcome = "failed" /\ last.call = calls =>
       /\ AllIdle
       /\ res.pc = "done" /\ ~res.success /\ res.error = "Error"
       /\ res.h.platform = last.platform
       /\ ~res.clicked /\ ~res.recorded
       /\ last.call = 1 => recorded = EmptyStore /\ ~file.exists
       /\ browser
       /\ HasContext(contexts, last.platform)
       /\ last.platform \in pages
       /\ navigate(browser, contexts, pages, sessions, last.platform, now,
                   TRUE, TRUE, TRUE)
            = [contexts |-> contexts, pages |-> pages,
               attempts |-> <<Goto("domcontentloaded")>>,
               outcome |-> "loaded"]
  /\ last.op = "navigate" /\ last.after = "failed" =>
       /\ last.outcome # "nopage"
       /\ last.primaryOk => last.outcome = "loaded"

\* An action has succeeded and recorded its quota after the navigation of
\* the action before it, on the same platform, had failed in both attempts.
C20_Witness ==
  /\ last.op = "navigate"
  /\ last.after = "failed"
  /\ last.call = calls
  /\ AllIdle
  /\ res.success /\ res.recorded
  /\ res.h.platform = last.platform

(***************************************************************************)
(* Properties of the click and of the notifications (SpecClick,            *)
(* SpecNotify)                                                             *)
(***************************************************************************)
\* The attempts a clickHuman call may make when its three tiers return as
\* ok says: each tier only after the one before it failed, none after one
\* that returned.
TiersFor(ok) ==
  IF ok[1] THEN <<"click">>
  ELSE IF ok[2] THEN <<"click", "force">>
  ELSE <<"click", "force", "dispatchEvent">>

\* C22: clickHuman tries the standard click, the forced click and the
\* synthetic click event in this order, a tier only after the tier before it
\* failed and none after a tier succeeded, and returns normally if any tier
\* succeeds; the action's result does not depend on the tier that succeeded:
\* the action succeeds, and records, exactly if clickHuman returned and the
\* page took the click.
C22_ClickTiers ==
  /\ \A ok1 \in BOOLEAN, ok2 \in BOOLEAN, ok3 \in BOOLEAN :
       LET c == clickHuman(TRUE, ok1, ok2, ok3)
       IN /\ c.tiers = TiersFor(<<ok1, ok2, ok3>>)
          /\ c.thrown <=> ~(ok1 \/ ok2 \/ ok3)
  /\ last.op = "clickHuman" /\ last.scrollOk =>
       /\ last.tiers = TiersFor(last.ok)
       /\ last.thrown <=> ~(last.ok[1] \/ last.ok[2] \/ last.ok[3])
  /\ last.op = "clickHuman" /\ last.call = calls /\ AllIdle =>
       /\ res.pc = "done" /\ res.clicked
       /\ res.success <=> ~last.thrown /\ last.took
       /\ res.recorded <=> res.success

\* A like has succeeded and recorded after its standard click failed and
\* its forced click succeeded.
C22_Witness ==
  /\ last.op = "clickHuman"
  /\ last.call = calls
  /\ AllIdle
  /\ last.tiers = <<"click", "force">>
  /\ res.success /\ res.verified /\ res.recorded

\* The results constructed so far: one per invocation that has returned.
Constructed == calls - Cardinality({i \in Procs : proc[i].pc # "idle"})

\* C23 as stated: every construction of an action result triggers exactly
\* one notification dispatch when the silence flag is not set, and none when
\* it is set.
C23_AlwaysNotified ==
  Len(notified) = IF silent THEN 0 ELSE Constructed

\* C23, amended: every construction of an action result, success or failure
\* (rate-limited and already-done results included), makes exactly one
\* notifier.notify call, with the result's event, platform, action, target,
\* success flag and error, when a notifier has been initialised and
\* CLAWSOCIAL_SILENT is not set; no call is made when the flag is set, nor
\* when no notifier has been initialised.
C23_Notified ==
  /\ Len(notified) =
       IF silent \/ ~notifierInstance THEN 0 ELSE Constructed
  /\ AllIdle /\ calls > 0 /\ ~silent /\ notifierInstance =>
       LET n == notified[Len(notified)]
       IN /\ n.event = IF res.success THEN "action:complete"
                       ELSE "action:error"
          /\ n.platform = res.h.platform /\ n.action = res.h.action
          /\ n.target = res.target
          /\ n.success = res.success /\ n.error = res.error

\* With a notifier and without the silence flag, a success and then a
\* rate-limited failure have been returned and each has been notified.
C23_Witness ==
  /\ AllIdle
  /\ ~silent /\ notifierInstance
  /\ calls = 2
  /\ Len(notified) = 2
  /\ notified[1].event = "action:complete"
  /\ notified[2].event = "action:error"
  /\ notified[2].error = "Rate limit exceeded"
  /\ res.error = "Rate limit exceeded"

\* C24: notification dispatch never blocks or fails the action result.  The
\* step that calls notifier.notify is the step that returns the result to
\* the caller, with the notifier's promise still pending; a returned result
\* is a result and not an exception, failed exactly when it carries an
\* error; and the notifier's promise resolving, rejecting or staying
\* pending changes neither the returned result nor the caller's state nor
\* the recorded quota.
C24_NeverBlocks ==
  /\ [](AllIdle /\ calls > 0 =>
          /\ res.pc = "done"
          /\ res.success <=> res.error = "")
  /\ [][/\ Len(notified') = Len(notified) + 1 =>
             /\ proc'[Caller] = Idle
             /\ res'.pc = "done"
             /\ notified'[Len(notified')].state = "pending"
        /\ Len(notified') = Len(notified) /\ notified' # notified =>
             /\ res' = res
             /\ proc' = proc
             /\ store' = store /\ file' = file]_vars

\* A second like has been returned as a success while the notification of
\* the first result was rejected and its own is still pending.
C24_Witness ==
  /\ AllIdle
  /\ calls = 2
  /\ Len(notified) = 2
  /\ notified[1].state = "rejected"
  /\ notified[2].state = "pending"
  /\ res.success /\ res.recorded

\* r is a failure result: success = false with an error string.
Failed(r) == r.pc = "done" /\ ~r.success /\ r.error # ""

\* Every invocation ends by returning an ActionResult, and the failures
\* other than persistence failures surface as failure results: no caller is
\* ever left with an exception; a result is a failure exactly when it
\* carries an error; a call returns with a result; and a disallowing quota
\* check, a navigation that throws, a page redirected to the login page, an
\* element that is not found, a click that throws on every tier and a
\* read-back that does not find the target done each return a failure
\* result.
ResultAlways ==
  /\ [](/\ \A i \in Procs :
             proc[i].pc \in {"idle", "locate", "click", "verify", "record"}
        /\ res.pc \in {"idle", "done"}
        /\ res.pc = "done" => (res.success <=> res.error = ""))
  /\ [][\A i \in Procs :
          /\ proc[i].pc # "idle" /\ proc'[i].pc = "idle" => res'.pc = "done"
          /\ (\E h \in AuthHandlers, t \in Targets : NavInvoke(i, h, t))
               /\ proc'[i].pc = "idle" =>
               Failed(res') /\ res'.error = "Rate limit exceeded"
          /\ (\E redirected \in BOOLEAN, found \in BOOLEAN :
                 NavigateAuth(i, FALSE, redirected, found)) =>
               Failed(res') /\ proc'[i] = Idle
          /\ (\E found \in BOOLEAN : NavigateAuth(i, TRUE, TRUE, found)) =>
               Failed(res') /\ proc'[i] = Idle
          /\ NavigateAuth(i, TRUE, FALSE, FALSE) /\ ~res'.success =>
               Failed(res') /\ res'.error = "not found"
          /\ Click(i, "thrown") => Failed(res') /\ proc'[i] = Idle
          /\ Verify(i) /\ proc'[i].pc = "idle" =>
               Failed(res') /\ ~res'.verified
       ]_vars

C26_PlatformOrder ==
  \A i \in Procs, j \in Procs :
    /\ i # j
    /\ proc[i].h.platform = proc[j].h.platform
    /\ proc[i].pc \in {"click", "verify"}
    => proc[j].pc \notin {"click", "verify"}

\* C27: when the page of an action was redirected to the login page, the
\* action returns a failure whose error names the session failure, which is
\* neither the element-not-found nor the rate-limit reason, and it has not
\* clicked and has recorded no quota.
C27_AuthFailure ==
  last.op = "locate" /\ last.redirected /\ last.call = calls /\ AllIdle =>
    /\ Failed(res)
    /\ res.error = "Session expired - redirected to login"
    /\ ~res.clicked /\ ~res.recorded

\* The least timestamp of the non-empty sequence s.
Oldest(s) == CHOOSE ts \in {s[i] : i \in 1..Len(s)} :
               \A i \in 1..Len(s) : ts <= s[i]

\* C28: the resetAt returned by check is the timestamp of the oldest record
\* still inside the 24-hour window plus 24 hours, or the current time plus
\* 24 hours when no record is inside the window.
C28_ResetAt ==
  \A w \in Windows :
    LET inside == InWindow(recorded[w[1]][w[2]], now)
    IN check(store, w[1], w[2], now).status.resetAt
         = IF inside = <<>> THEN now + DAY_MS
                            ELSE Oldest(inside) + DAY_MS

\* A check has just been made on a window whose older record has left the
\* 24-hour window while its newer one is inside, before the present time.
C28_Witness ==
  /\ last.op = "check"
  /\ LET all == recorded[last.platform][getKey(last.action)]
     IN /\ Len(all) = 2
        /\ InWindow(all, now) = <<all[2]>>
        /\ all[2] < now

\* C29: no action family is unlimited.  check returns a finite positive
\* total for every platform and family; for a family with no configured
\* ceiling the total is the default of 50; and check disallows the action
\* exactly when as many records as the total are inside the 24-hour window.
C29_DefaultCeiling ==
  \A w \in Windows :
    LET status == check(store, w[1], w[2], now).status
        N == Len(InWindow(recorded[w[1]][w[2]], now))
    IN /\ status.total > 0
       /\ w[2] \notin DOMAIN limits[w[1]] =>
            /\ status.total = DEFAULT_LIMIT
            /\ N >= DEFAULT_LIMIT => ~status.allowed
       /\ status.allowed <=> N < status.total
       /\ status.remaining = Max(0, status.total - N)

\* A check has just disallowed an action of a family without a configured
\* ceiling, whose window holds 50 records.
C29_Witness ==
  /\ last.op = "check"
  /\ last.platform = "twitter" /\ last.action = "dm"
  /\ "dm" \notin DOMAIN limits["twitter"]
  /\ Len(store["twitter"]["dm"]) = DEFAULT_LIMIT
  /\ ~check(store, "twitter", "dm", now).status.allowed

\* The families with more than one action type, and their members.
Family ==
  [like    |-> {"like", "view_story", "view_profile", "retweet"},
   comment |-> {"comment", "reply"},
   follow  |-> {"follow", "connect"}]

\* C30: the action types of one family share a single quota window.  For
\* every platform, check for view_story, view_profile and retweet reads the
\* "like" window, for reply the "comment" window and for connect the
\* "follow" window, and returns what check for the family returns; and a
\* record of any member lowers remaining by one (not below 0) for every
\* member of its family on that platform, adds its timestamp to the family's
\* window and leaves every other window unchanged.
C30_SharedWindow ==
  /\ [](\A p \in Platforms, f \in DOMAIN Family : \A a \in Family[f] :
          /\ a # f => a \notin DOMAIN store[p]
          /\ check(store, p, a, now) = check(store, p, f, now))
  /\ [][\A c \in LimiterCalls :
          (\E writeOk \in BOOLEAN : RecordOp(c[1], c[2], writeOk)) =>
            /\ \A f \in DOMAIN Family : \A a \in Family[f] :
                 LET before == check(store, c[1], a, now).status.remaining
                     after == check(store', c[1], a, now').status.remaining
                 IN after = IF c[2] \in Family[f] THEN Max(0, before - 1)
                            ELSE before
            /\ \A w \in Windows :
                 store'[w[1]][w[2]] =
                   IF w[1] = c[1] /\ w[2] \in DOMAIN Family
                      /\ c[2] \in Family[w[2]]
                   THEN Append(store[w[1]][w[2]], now)
                   ELSE store[w[1]][w[2]]]_vars

\* A connect has just been recorded on LinkedIn after a story view on
\* Instagram: the follow window of LinkedIn and the like window of Instagram
\* hold one record each, and no follow is left on LinkedIn.
C30_Witness ==
  /\ last.op = "record" /\ last.action = "connect"
  /\ Len(store["linkedin"]["follow"]) = 1
  /\ Len(store["instagram"]["like"]) = 1
  /\ store["linkedin"]["like"] = <<>>
  /\ check(store, "linkedin", "follow", now).status.remaining = 0
  /\ check(store, "instagram", "retweet", now).status.remaining
       = getLimit("instagram", "like") - 1

(***************************************************************************)
(* Text of comments and replies: sanitizeText applied to texts             *)
(* (SpecSanitize) and the comment handlers typing their text (SpecComment) *)
(***************************************************************************)
MaxTextLen == 4      \* characters of a text handed to sanitizeText

\* The characters texts are made of: a letter, a blank, the comma, the
\* period, the em-dash ("em") and the en-dash ("en").
Chars == {"a", " ", ",", ".", "em", "en"}

\* The texts of at most n characters.
Texts(n) == UNION {[1..k -> Chars] : k \in 0..n}

\* s without its leading whitespace.
RECURSIVE SkipWs(_)
SkipWs(s) ==
  IF s # <<>> /\ Head(s) = " " THEN SkipWs(Tail(s)) ELSE s

\* s.replace(/\s*X\s*/g, ', ') for the dash X: scanning from the left, a run
\* of whitespace followed by the dash, with the whitespace after the dash,
\* is replaced, and the scan goes on behind the match.
RECURSIVE replaceDash(_, _)
replaceDash(s, dash) ==
  IF s = <<>> THEN <<>>
  ELSE LET r == SkipWs(s)
       IN IF r # <<>> /\ Head(r) = dash
          THEN <<",", " ">> \o replaceDash(SkipWs(Tail(r)), dash)
          ELSE <<Head(s)>> \o replaceDash(Tail(s), dash)

\* s.replace(/,\s*X/g, 'X') for X the comma or the period: scanning from the
\* left, a comma, whitespace and X are replaced by X, and the scan goes on
\* behind the match (the replacement is not scanned again).
RECURSIVE replaceCommaBefore(_, _)
replaceCommaBefore(s, x) ==
  IF s = <<>> THEN <<>>
  ELSE LET r == SkipWs(Tail(s))
       IN IF Head(s) = "," /\ r # <<>> /\ Head(r) = x
          THEN <<x>> \o replaceCommaBefore(Tail(r), x)
          ELSE <<Head(s)>> \o replaceCommaBefore(Tail(s), x)

\* s without its trailing whitespace.
RECURSIVE DropTrailingWs(_)
DropTrailingWs(s) ==
  IF s # <<>> /\ s[Len(s)] = " "
  THEN DropTrailingWs(SubSeq(s, 1, Len(s) - 1))
  ELSE s

\* String.prototype.trim
trim(s) == DropTrailingWs(SkipWs(s))

\* sanitizeText(text): the four replacements in the order of the code, then
\* trim.
sanitizeText(text) ==
  LET a == replaceDash(text, "em")
      b == replaceDash(a, "en")
      c == replaceCommaBefore(b, ",")
      d == replaceCommaBefore(c, ".")
  IN trim(d)

\* A text is chosen, nothing else has happened.
InitSanitize ==
  /\ now = 0
  /\ ticks = 0
  /\ file = [exists |-> FALSE, data |-> EmptyStore]
  /\ store = load(file)
  /\ proc = [i \in Procs |-> Idle]
  /\ res = Idle
  /\ world = {}
  /\ calls = 0
  /\ recorded = EmptyStore
  /\ acked = EmptyStore
  /\ \E t \in Texts(MaxTextLen) : last = [op |-> "text", text |-> t]
  /\ browser = FALSE
  /\ contexts = <<>>
  /\ sessions = [p \in Platforms |-> NoSession]
  /\ pages = {}
  /\ silent = FALSE
  /\ notifierInstance = FALSE
  /\ notified = <<>>
  /\ opened = <<>>
  /\ inflight = [i \in Procs |-> NoFlight]
  /\ wsManager = NoServer

\* this.sanitizeText(text)
SanitizeText ==
  /\ last.op = "text"
  /\ last' = [op |-> "sanitizeText", text |-> last.text,
              sanitized |-> sanitizeText(last.text)]
  /\ UNCHANGED <<wsManager, overlapVars, bmVars, quotaVars, now, ticks, calls>>

NextSanitize == SanitizeText

SpecSanitize == InitSanitize /\ [][NextSanitize]_vars

\* In s some comma is followed, after whitespace only, by x.
CommaBefore(s, x) ==
  \E i \in 1..Len(s) :
    /\ s[i] = ","
    /\ LET r == SkipWs(SubSeq(s, i + 1, Len(s)))
       IN r # <<>> /\ Head(r) = x

\* "Nice work - really clever", with an em-dash for the dash.
NiceWork ==
  <<"N", "i", "c", "e", " ", "w", "o", "r", "k", " ", "em", " ",
    "r", "e", "a", "l", "l", "y", " ", "c", "l", "e", "v", "e", "r">>

\* "Nice work, really clever"
NiceWorkSanitized ==
  <<"N", "i", "c", "e", " ", "w", "o", "r", "k", ",", " ",
    "r", "e", "a", "l", "l", "y", " ", "c", "l", "e", "v", "e", "r">>

\* C32: for every input text, the output of sanitizeText contains no
\* em-dash and no en-dash, no two commas separated only by whitespace and no
\* comma directly before a period; and "Nice work - really clever" (with an
\* em-dash) becomes "Nice work, really clever".
C32_Sanitized ==
  /\ sanitizeText(NiceWork) = NiceWorkSanitized
  /\ last.op = "sanitizeText" =>
       LET out == last.sanitized
       IN /\ \A i \in 1..Len(out) : out[i] \notin {"em", "en"}
          /\ ~CommaBefore(out, ",")
          /\ \A i \in 1..Len(out) - 1 : ~(out[i] = "," /\ out[i + 1] = ".")

\* TwitterHandler.comment: checks and records "comment", has no
\* already-done lookup and no read-back.
TwitterComment ==
  [platform |-> "twitter", action |-> "comment", quota |-> "comment",
   already |-> FALSE, verify |-> FALSE]

CommentHandlers == {InstagramComment, TwitterComment}

\* The texts callers hand to the comment handlers: without a dash, with an
\* em-dash and with an en-dash.
CommentTexts == {<<"a", ".">>, <<"a", "em", "a">>, <<"a", " ", "en", "a">>}

\* handler.comment({url, text}) is invoked while no other handler runs.
CommentInvoke(i, h, target, text) ==
  /\ AllIdle
  /\ calls < MaxCalls
  /\ LET r == check(store, h.platform, h.quota, now)
     IN /\ store' = r.store
        /\ Step(i, [Begin(h, target, r.status) EXCEPT !.text = text])
  /\ calls' = calls + 1
  /\ UNCHANGED <<wsManager, overlapVars,
                 bmVars, now, ticks, file, world, recorded, acked, last>>

\* The characters that typeHuman(selector, text) and
\* page.keyboard.type(text) enter into the focused input: those of text, one
\* after the other.
typeHuman(text) == text

\* The click on the input, the typing of payload.text and the submission:
\* "typed" is the text the page has received.
TypeText(i, outcome) ==
  /\ proc[i].pc = "click"
  /\ Step(i, IF outcome = "thrown"
             THEN catchError([proc[i] EXCEPT !.clicked = TRUE])
             ELSE AfterClick([proc[i] EXCEPT
                                !.clicked = TRUE,
                                !.typed = typeHuman(proc[i].text)]))
  /\ world' = IF outcome = "done" THEN world \cup {Done(proc[i])} ELSE world
  /\ UNCHANGED <<wsManager, overlapVars,
                 bmVars, now, ticks, store, file, calls, recorded, acked,
                 last>>

NextComment ==
  \/ \E h \in CommentHandlers, text \in CommentTexts :
       CommentInvoke(Caller, h, "t1", text)
  \/ \E loaded \in BOOLEAN, found \in BOOLEAN :
       Navigate(Caller, loaded, found)
  \/ \E o \in {"done", "thrown"} : TypeText(Caller, o)
  \/ Record(Caller, TRUE)

SpecComment == Init /\ [][NextComment]_vars

\* C31: the text entered into the page for a comment or reply is the
\* sanitized form of the text supplied by the caller, on every platform:
\* when a comment has been submitted and its result returned, the page has
\* received sanitizeText of the caller's text.
C31_TypedSanitized ==
  AllIdle /\ res.pc = "done" /\ res.h \in CommentHandlers /\ res.recorded =>
    res.typed = sanitizeText(res.text)

(***************************************************************************)
(* getPage and getContext, await by await.  A caller that has called       *)
(* getPage(platform) is suspended at browser.newContext, inside            *)
(* applyStealthMode / restoreSession, or at context.newPage; between two   *)
(* of these awaits other callers and shutdown run.  "opened" remembers     *)
(* every context and page the browser returned: whether it is open, and    *)
(* whether the manager's map holds it.                                     *)
(***************************************************************************)
\* The platforms whose pages are requested.
OverlapPlatforms == {"instagram", "linkedin"}

\* The session file an earlier process can have left for a platform: none,
\* or the BrowserSession of a logged-in context.
OverlapFiles(p) ==
  {f \in LeftFiles(p) :
     ~f.exists \/ (f.form = "session" /\ f.data.localStorage = {})}

InitOverlap ==
  /\ now = 0
  /\ ticks = 0
  /\ file = [exists |-> FALSE, data |-> EmptyStore]
  /\ store = load(file)
  /\ proc = [i \in Procs |-> Idle]
  /\ res = Idle
  /\ world = {}
  /\ calls = 0
  /\ recorded = EmptyStore
  /\ acked = EmptyStore
  /\ last = NoCall
  /\ browser = FALSE
  /\ contexts = <<>>
  /\ \E f \in OverlapFiles("instagram") :
       sessions = [q \in Platforms |->
                     IF q = "instagram" THEN f ELSE NoSession]
  /\ pages = {}
  /\ silent = FALSE
  /\ notifierInstance = FALSE
  /\ notified = <<>>
  /\ opened = <<>>
  /\ inflight = [i \in Procs |-> NoFlight]
  /\ wsManager = NoServer

\* What browser.newContext / context.newPage returns: open, not cached yet.
NewContextOf(platform) ==
  [kind |-> "context", platform |-> platform, open |-> TRUE, held |-> FALSE,
   ctx |-> 0]

NewPageOf(platform, c) ==
  [kind |-> "page", platform |-> platform, open |-> TRUE, held |-> FALSE,
   ctx |-> c]

\* The context that this.contexts.get(platform) returns.
HeldContext(o, platform) ==
  CHOOSE k \in DOMAIN o :
    o[k].kind = "context" /\ o[k].platform = platform /\ o[k].held

\* this.contexts.set(platform, context) / this.pages.set(platform, page), as
\* seen from the browser: the map holds the new one and no longer whatever
\* it held for the platform before.
Hold(o, k) ==
  [j \in DOMAIN o |->
     IF j = k THEN [o[j] EXCEPT !.held = TRUE]
     ELSE IF o[j].kind = o[k].kind /\ o[j].platform = o[k].platform
          THEN [o[j] EXCEPT !.held = FALSE]
          ELSE o[j]]

\* this.contexts.set(platform, context): a Map keeps the position of a key
\* it has already.
MapSet(ctxs, c) ==
  IF HasContext(ctxs, c.platform)
  THEN [i \in 1..Len(ctxs) |->
          IF ctxs[i].platform = c.platform THEN c ELSE ctxs[i]]
  ELSE Append(ctxs, c)

\* restoreSession gets as far as "await context.addCookies".
ReachesAddCookies(f, t) == restoreSession(f, t, TRUE) # {}

\* getPage(platform) up to its first await.  A cached page is returned at
\* once; else getContext throws without a browser, returns the cached
\* context (and getPage goes on to context.newPage), or calls
\* browser.newContext.
BeginGetPage(i, platform) ==
  /\ inflight[i] = NoFlight
  /\ calls < MaxCalls
  /\ calls' = calls + 1
  /\ inflight' =
       [inflight EXCEPT ![i] =
          IF platform \in pages \/ ~browser THEN NoFlight
          ELSE IF HasContext(contexts, platform)
          THEN [pc |-> "newPage", platform |-> platform, page |-> TRUE,
                ctx |-> HeldContext(opened, platform)]
          ELSE [pc |-> "newContext", platform |-> platform, page |-> TRUE,
                ctx |-> 0]]
  /\ last' = [op |-> "getPage", platform |-> platform, caller |-> i,
              outcome |-> IF platform \in pages THEN "cached"
                          ELSE IF ~browser THEN "threw" ELSE "awaiting"]
  /\ UNCHANGED <<wsManager, now, ticks, quotaVars, bmVars, opened>>

\* "context = await this.browser.newContext(...)" returns: the context
\* exists, and the caller goes on into applyStealthMode and restoreSession.
\* A browser closed in the meantime rejects the call.
NewContext(i) ==
  /\ inflight[i].pc = "newContext"
  /\ IF browser
     THEN /\ opened' = Append(opened, NewContextOf(inflight[i].platform))
          /\ inflight' = [inflight EXCEPT ![i].pc = "restoreSession",
                                          ![i].ctx = Len(opened) + 1]
     ELSE /\ opened' = opened
          /\ inflight' = [inflight EXCEPT ![i] = NoFlight]
  /\ last' = [op |-> "newContext", platform |-> inflight[i].platform,
              caller |-> i,
              outcome |-> IF browser THEN "created" ELSE "threw"]
  /\ UNCHANGED <<wsManager, now, ticks, calls, quotaVars, bmVars>>

\* The rest of getContext, resumed from the await it was suspended at:
\* "applyStealthMode" (context.addInitScript) or "addCookies" (inside the
\* try block of restoreSession).  On a context closed in the meantime the
\* awaited call throws: out of applyStealthMode the exception leaves
\* getContext, out of addCookies it is caught by restoreSession and
\* getContext goes on to this.contexts.set.
ContextsSet(i, at) ==
  LET f == inflight[i]
      c == opened[f.ctx]
      threw == ~c.open /\ at = "applyStealthMode"
  IN /\ f.pc = "restoreSession"
     /\ at = "addCookies" => ReachesAddCookies(sessions[f.platform], now)
     /\ IF threw
        THEN /\ UNCHANGED <<contexts, opened>>
             /\ inflight' = [inflight EXCEPT ![i] = NoFlight]
        ELSE /\ contexts' =
                  MapSet(contexts,
                         [platform |-> f.platform,
                          cookies |-> restoreSession(sessions[f.platform],
                                                     now, c.open),
                          storage |-> {}, stealth |-> 1])
             /\ opened' = Hold(opened, f.ctx)
             /\ inflight' = [inflight EXCEPT ![i].pc = "newPage"]
     /\ last' = [op |-> "contexts.set", platform |-> f.platform,
                 caller |-> i,
                 outcome |-> IF threw THEN "threw" ELSE "set"]
     /\ UNCHANGED <<wsManager, now, ticks, calls, quotaVars, browser,
                    sessions, pages>>

\* "page = await context.newPage()" returns, and this.pages.set(platform,
\* page) follows; a context closed in the meantime rejects the call.
NewPage(i) ==
  LET f == inflight[i]
  IN /\ f.pc = "newPage"
     /\ IF opened[f.ctx].open
        THEN /\ opened' = Hold(Append(opened, NewPageOf(f.platform, f.ctx)),
                               Len(opened) + 1)
             /\ pages' = pages \cup {f.platform}
        ELSE UNCHANGED <<opened, pages>>
     /\ inflight' = [inflight EXCEPT ![i] = NoFlight]
     /\ last' = [op |-> "newPage", platform |-> f.platform, caller |-> i,
                 outcome |-> IF opened[f.ctx].open THEN "created"
                             ELSE "threw"]
     /\ UNCHANGED <<wsManager, now, ticks, calls, quotaVars, browser,
                    contexts, sessions>>

NextOverlap ==
  \/ Initialize
  \/ \E i \in Procs, p \in OverlapPlatforms : BeginGetPage(i, p)
  \/ \E i \in Procs : NewContext(i)
  \/ \E i \in Procs, at \in {"applyStealthMode", "addCookies"} :
       ContextsSet(i, at)
  \/ \E i \in Procs : NewPage(i)
  \/ \E p \in OverlapPlatforms : CloseContext(p)
  \/ \E f \in {{}} \cup {{contexts[i].platform} : i \in 1..Len(contexts)} :
       Shutdown(f)

SpecOverlap == InitOverlap /\ [][NextOverlap]_vars

\* The contexts (kind "context") or pages (kind "page") of a platform that
\* are open.
Open(kind, platform) ==
  {k \in DOMAIN opened : /\ opened[k].kind = kind
                         /\ opened[k].platform = platform
                         /\ opened[k].open}

\* C33 (as stated): at every moment and for every platform, at most one
\* context and at most one page created by the manager are open, also when
\* getPage calls for the platform overlap.
C33_OnePerPlatform ==
  \A p \in Platforms :
    /\ Cardinality(Open("context", p)) <= 1
    /\ Cardinality(Open("page", p)) <= 1

\* C39 (as stated): once shutdown() has resolved (the manager has no browser
\* again), the manager holds no context and no page, and every context and
\* page it created is closed, also when a getPage call was in flight when
\* shutdown was called.
C39_NothingLeft ==
  ~browser =>
    /\ contexts = <<>>
    /\ pages = {}
    /\ \A k \in DOMAIN opened : ~opened[k].open

(***************************************************************************)
(* Callers working side by side, each on a platform of its own, through    *)
(* the browser manager and the rate limiter.                               *)
(***************************************************************************)
\* The platform that caller i works on.
CrossPlatform(i) ==
  <<"instagram", "linkedin", "twitter">>[((i - 1) % 3) + 1]

\* The handlers that caller i calls.
CrossHandlers(i) ==
  {h \in {InstagramLike, InstagramFollow, LinkedInConnect, TwitterLike} :
     h.platform = CrossPlatform(i)}

NextCross ==
  \/ Initialize
  \/ \E i \in Procs : \E h \in CrossHandlers(i) : Invoke(i, h, "t1", MaxCalls)
  \/ \E i \in Procs, primaryOk \in BOOLEAN, found \in BOOLEAN :
       NavigateCall(i, primaryOk, TRUE, found)
  \/ \E i \in Procs, o \in {"done", "thrown"} : Click(i, o)
  \/ \E i \in Procs : Verify(i)
  \/ \E i \in Procs, writeOk \in BOOLEAN : Record(i, writeOk)

SpecCross == Init /\ [][NextCross]_vars

\* What the program holds for platform q: its context, its page, its
\* session file and its quota windows.
Owned(ctxs, pgs, ss, st, q) ==
  [context |-> SelectSeq(ctxs, LAMBDA c : c.platform = q),
   page |-> q \in pgs, session |-> ss[q], windows |-> st[q]]

\* The handler invocation that a step starts or continues: the caller's
\* position after the step, or the result returned when the step ends the
\* invocation.
Acting ==
  IF proc' = proc THEN res'
  ELSE LET i == CHOOSE i \in Procs : proc'[i] # proc[i]
       IN IF proc'[i].pc = "idle" THEN res' ELSE proc'[i]

\* C34: a step of an action on one platform leaves every other platform's
\* context, page, session file and quota windows as they are, and the
\* quota status the action gets is the one given by the records made on
\* its own platform, whatever the other platforms' actions did in between.
\* The one file of the limiter is rewritten whole by every record: the part
\* of another platform is then that platform's own windows as they are in
\* memory, and nothing else.
C34_Independent ==
  [][proc' # proc \/ calls' # calls =>
       LET h == Acting.h
           own == Len(recorded[h.platform][getKey(h.quota)])
       IN /\ \A q \in Platforms \ {h.platform} :
               Owned(contexts', pages', sessions', store', q)
                 = Owned(contexts, pages, sessions, store, q)
          /\ \A q \in Platforms \ {h.platform} :
               file'.data[q] \in {file.data[q], store[q]}
          /\ calls' # calls =>
               (Acting.allowed <=> own < getLimit(h.platform,
                                                  getKey(h.quota)))]_vars

\* Two actions on different platforms are under way at once, each with its
\* page open and its quota granted.
C34_Witness ==
  \E i, j \in Procs :
    /\ proc[i].pc = "click" /\ proc[j].pc = "record"
    /\ proc[i].h.platform # proc[j].h.platform
    /\ {proc[i].h.platform, proc[j].h.platform} \subseteq pages
    /\ proc[i].allowed /\ proc[j].allowed

(***************************************************************************)
(* InstagramHandler.login and the waits inside it, with the clock.  A wait *)
(* that succeeds is taken to end at once, a wait that fails to last for    *)
(* its whole timeout; the sleeps between steps (delay, pause) are left     *)
(* out.  The user may never log in, the page may never load and the form   *)
(* may never appear.                                                       *)
(***************************************************************************)
\* const timeout = 120000
LOGIN_TIMEOUT == 120000

\* setTimeout(resolve, 2000)
POLL_MS == 2000

\* waitForElement(SELECTORS.loginUsername, 15000)
FORM_TIMEOUT == 15000

\* element.click({ timeout: 5000 })
CLICK_TIMEOUT == 5000

\* How long browserManager.navigate waits in page.goto: not at all when the
\* page loads, one timeout when the retry loads it, two when neither does.
navTime(primaryOk, retryOk) ==
  IF primaryOk THEN 0 ELSE IF retryOk THEN NAV_TIMEOUT ELSE 2 * NAV_TIMEOUT

\* isLoggedIn(): an exception of navigate is caught and gives false.
isLoggedIn(primaryOk, retryOk, logged) == (primaryOk \/ retryOk) /\ logged

\* await new Promise((resolve) => setTimeout(resolve, 2000))
sleep(t) == t + POLL_MS

\* Variant of the loop condition: a pass begins at the timeout itself.
pollingInclusive(t, startTime) == t - startTime <= LOGIN_TIMEOUT

\* while (Date.now() - startTime < timeout)
polling(t, startTime) == t - startTime < LOGIN_TIMEOUT

\* login() returns r at clock value t.
LoginReturn(i, r, t) ==
  /\ proc' = [proc EXCEPT ![i] = Idle]
  /\ last' = [op |-> "login", entered |-> last.entered, returned |-> TRUE,
              result |-> r, at |-> t]

\* login() up to the end of its first navigate; an exception of navigate is
\* caught and login returns false.  The program logs in before it acts.
LoginCall(i, primaryOk, retryOk) ==
  /\ proc[i].pc = "idle"
  /\ calls = 0
  /\ calls' = calls + 1
  /\ now' = now + navTime(primaryOk, retryOk)
  /\ IF primaryOk \/ retryOk
     THEN /\ proc' = [proc EXCEPT ![i].pc = "login:check"]
          /\ last' = [op |-> "login", entered |-> now, returned |-> FALSE,
                      result |-> FALSE, at |-> now]
     ELSE /\ proc' = proc
          /\ last' = [op |-> "login", entered |-> now, returned |-> TRUE,
                      result |-> FALSE, at |-> now']
  /\ UNCHANGED <<wsManager, overlapVars,
                 bmVars, notifyVars, ticks, store, file, res,
                 world, recorded, acked>>

\* if (await this.isLoggedIn()) return true
LoginCheck(i, primaryOk, retryOk, logged) ==
  /\ proc[i].pc = "login:check"
  /\ now' = now + navTime(primaryOk, retryOk)
  /\ IF isLoggedIn(primaryOk, retryOk, logged)
     THEN LoginReturn(i, TRUE, now')
     ELSE /\ proc' = [proc EXCEPT ![i].pc = "login:form"]
          /\ last' = last
  /\ UNCHANGED <<wsManager, overlapVars,
                 bmVars, notifyVars, ticks, store, file, res,
                 world, calls, recorded, acked>>

\* waitForElement(SELECTORS.loginUsername, 15000), and "const startTime =
\* Date.now()" after it.
LoginForm(i, appears) ==
  /\ proc[i].pc = "login:form"
  /\ IF appears
     THEN /\ now' = now
          /\ proc' = [proc EXCEPT ![i].pc = "login:poll",
                                  ![i].startTime = now]
          /\ last' = last
     ELSE /\ now' = now + FORM_TIMEOUT
          /\ LoginReturn(i, FALSE, now')
  /\ UNCHANGED <<wsManager, overlapVars,
                 bmVars, notifyVars, ticks, store, file, res,
                 world, calls, recorded, acked>>

\* One test of the loop condition and, while it holds, one pass of the
\* loop: isLoggedIn, then either the session is saved, the two popups are
\* dismissed (failed being the clicks that ran into their timeout) and
\* login returns true, or the loop sleeps.
LoginPoll(i, primaryOk, retryOk, logged, failed) ==
  /\ proc[i].pc = "login:poll"
  /\ IF ~polling(now, proc[i].startTime)
     THEN /\ now' = now
          /\ LoginReturn(i, FALSE, now)
     ELSE IF isLoggedIn(primaryOk, retryOk, logged)
     THEN /\ now' = now + navTime(primaryOk, retryOk)
                        + failed * CLICK_TIMEOUT
          /\ LoginReturn(i, TRUE, now')
     ELSE /\ now' = sleep(now + navTime(primaryOk, retryOk))
          /\ UNCHANGED <<proc, last>>
  /\ UNCHANGED <<wsManager, overlapVars,
                 bmVars, notifyVars, ticks, store, file, res,
                 world, calls, recorded, acked>>

NextLogin ==
  \/ \E primaryOk, retryOk \in BOOLEAN : LoginCall(Caller, primaryOk, retryOk)
  \/ \E primaryOk, retryOk, logged \in BOOLEAN :
       LoginCheck(Caller, primaryOk, retryOk, logged)
  \/ \E appears \in BOOLEAN : LoginForm(Caller, appears)
  \/ \E primaryOk, retryOk, logged \in BOOLEAN, failed \in {0, 4} :
       LoginPoll(Caller, primaryOk, retryOk, logged, failed)
  \/ \E t \in Targets : Invoke(Caller, InstagramLike, t, MaxCalls)
  \/ \E loaded, found \in BOOLEAN : Navigate(Caller, loaded, found)
  \/ \E o \in {"done", "ignored", "thrown"} : Click(Caller, o)
  \/ Verify(Caller)
  \/ Record(Caller, TRUE)

\* Every wait ends, by its timeout at the latest, and the event loop then
\* resumes the caller.
SpecLogin == InitLimiter /\ [][NextLogin]_vars /\ WF_vars(NextLogin)

\* A login takes less than this: a navigation that loads at the retry, the
\* navigation of isLoggedIn, the polling loop up to its timeout, and a last
\* pass that began before it (the longest pass is one whose navigation
\* fails twice and which then sleeps).
LoginBound == 5 * NAV_TIMEOUT + LOGIN_TIMEOUT + POLL_MS

\* C35: every wait inside an action or a login is bounded: a login returns
\* less than LoginBound after its call, and every invocation of an action or of
\* login returns, even if the page never loads, the element never appears
\* or the user never logs in.
C35_Bounded ==
  /\ [](last.op = "login" =>
          (IF last.returned THEN last.at ELSE now) - last.entered
            < LoginBound)
  /\ (proc[Caller].pc # "idle" ~> proc[Caller].pc = "idle")

\* The user never logged in: login returned false when the polling loop ran
\* into its timeout.
C35_Witness ==
  /\ last.op = "login"
  /\ last.returned /\ ~last.result
  /\ last.at - last.entered >= LOGIN_TIMEOUT

\* The times at which a later check is looked at, seen from a check at the
\* present time that returned resetAt = T.
Later(T) ==
  {u \in {now, now + SECOND_MS, T - SECOND_MS, T, T + SECOND_MS, T + DAY_MS} :
     u >= now}

\* C36: the window refills by sliding, exactly at resetAt.  If a check finds
\* the window holding exactly as many records as the ceiling and refuses,
\* returning resetAt = T, then without a record in between every later
\* check before T refuses and every check at or after T allows, also after
\* other checks in between.
C36_Refill ==
  \A w \in Windows :
    LET first == check(store, w[1], w[2], now)
        T == first.status.resetAt
    IN ~first.status.allowed
         /\ Len(first.store[w[1]][w[2]]) = first.status.total =>
       \A u \in Later(T) :
         LET second == check(first.store, w[1], w[2], u)
         IN /\ second.status.allowed <=> u >= T
            /\ \A v \in Later(T) :
                 v >= u =>
                   (check(second.store, w[1], w[2], v).status.allowed
                      <=> v >= T)

\* A check has just been made at the very time at which a full window's
\* oldest record turned 24 hours old, and the check has dropped it.
C36_Witness ==
  /\ last.op = "check"
  /\ LET all == recorded[last.platform][getKey(last.action)]
     IN /\ Len(all) = getLimit(last.platform, getKey(last.action))
        /\ Oldest(all) + DAY_MS = now
        /\ Len(store[last.platform][getKey(last.action)]) < Len(all)

\* C37 (as stated): for every configured (platform, family) pair, check
\* reports the configured value as total and allows an action exactly while
\* fewer records than that are inside the window; a configured ceiling of 0
\* refuses every check.
C37_ConfiguredCeiling ==
  \A w \in Windows :
    w[2] \in DOMAIN limits[w[1]] =>
      LET status == check(store, w[1], w[2], now).status
          N == Len(InWindow(recorded[w[1]][w[2]], now))
      IN /\ status.total = limits[w[1]][w[2]]
         /\ status.allowed <=> N < limits[w[1]][w[2]]

(***************************************************************************)
(* The read-only queries of the limiter                                    *)
(***************************************************************************)
\* this.store[platform]?.[key]?.filter(...) || []
Kept(st, platform, key, t) ==
  IF key \in DOMAIN st[platform]
  THEN Filter(st[platform][key], t - DAY_MS)
  ELSE <<>>

\* getRemaining(platform, action) at clock value t
getRemaining(st, platform, action, t) ==
  LET key == getKey(action)
      limit == getLimit(platform, key)
  IN IF key \notin DOMAIN st[platform] THEN limit
     ELSE Max(0, limit - Len(Kept(st, platform, key, t)))

\* getStatus(platform) at clock value t: one status per key of the
\* platform's configured limits, computed from the configured value.
getStatus(st, platform, t) ==
  [key \in DOMAIN limits[platform] |->
     LET limit == limits[platform][key]
         actions == Kept(st, platform, key, t)
         remaining == Max(0, limit - Len(actions))
     IN [remaining |-> remaining,
         total     |-> limit,
         resetAt   |-> IF Len(actions) > 0 THEN actions[1] + DAY_MS
                                           ELSE t + DAY_MS,
         allowed   |-> remaining > 0]]

\* C38 (as stated): at any instant, for every platform and every family
\* that getStatus reports, getStatus and getRemaining give the remaining,
\* total, allowed and resetAt that check would return at that instant.
C38_QueriesAgree ==
  \A p \in Platforms :
    \A key \in DOMAIN getStatus(store, p, now) :
      LET status == check(store, p, key, now).status
      IN /\ getStatus(store, p, now)[key] = status
         /\ getRemaining(store, p, key, now) = status.remaining

(***************************************************************************)
(* The WebSocket server: connections, the messages of handleMessage and    *)
(* the two broadcasts.  A client record remembers the kinds of message it  *)
(* was sent ("error", "result", "event"), whether one of its messages      *)
(* carried the configured key (keyed) and whether one of its commands made *)
(* a platform handler run (caused).                                        *)
(***************************************************************************)
\* config.server.apiKey: not set, or set.
ApiKeys == {"", "k"}

\* What a message carries as payload.apiKey: nothing, the configured key or
\* another key.
SentKeys == {"", "k", "x"}

\* message.type; "auth" stands for every type without a case of its own.
MessageTypes == {"ping", "command", "subscribe", "unsubscribe", "auth"}

\* The topics: those of broadcast are `${platform}:${action}` and '*'.
Topics == {"*", "instagram:like"}

\* Variant of the authentication test: only commands are refused.
refusedCommandsOnly(mgr, client, type) ==
  type = "command" /\ ~client.authenticated /\ mgr.apiKey # ""

\* if (!client.authenticated && this.apiKey), in the cases 'command' and
\* 'subscribe'
refused(mgr, client, type) ==
  type \in {"command", "subscribe"} /\ ~client.authenticated /\ mgr.apiKey # ""

\* this.send(client, message)
send(client, kind) == [client EXCEPT !.received = @ \cup {kind}]

\* this.broadcast(topic, message): to every client subscribed to the topic
\* or to '*'.
broadcast(clients, topic, kind) ==
  [c \in DOMAIN clients |->
     IF clients[c].open /\ clients[c].subscriptions \cap {topic, "*"} # {}
     THEN send(clients[c], kind)
     ELSE clients[c]]

\* startServer(): new WebSocketManager(this, apiKey) and start(port, host).
StartServer(key) ==
  /\ ~wsManager.started
  /\ wsManager' = [wsManager EXCEPT !.started = TRUE, !.apiKey = key]
  /\ UNCHANGED <<overlapVars, bmVars, quotaVars, now, ticks, calls, last>>

\* wss.on('connection'): the client is authenticated from the start only if
\* no key is configured.
Connect(c) ==
  /\ wsManager.started
  /\ ~wsManager.clients[c].open
  /\ wsManager' =
       [wsManager EXCEPT !.clients[c] =
          [NoClient EXCEPT !.open = TRUE,
                           !.authenticated = wsManager.apiKey = ""]]
  /\ UNCHANGED <<overlapVars, bmVars, quotaVars, now, ticks, calls, last>>

\* ws.on('close'): this.clients.delete(clientId)
Close(c) ==
  /\ wsManager.clients[c].open
  /\ wsManager' = [wsManager EXCEPT !.clients[c] = NoClient]
  /\ UNCHANGED <<overlapVars, bmVars, quotaVars, now, ticks, calls, last>>

\* ws.on('message') with handleMessage and, for a command, handleCommand:
\* the handler runs, its result is sent to the client and broadcast to the
\* topic's subscribers.
Message(c, type, key, topic) ==
  LET mgr == wsManager
      client == [mgr.clients[c] EXCEPT
                   !.keyed = @ \/ (mgr.apiKey # "" /\ key = mgr.apiKey)]
      runs == type = "command" /\ ~refused(mgr, client, type)
      after ==
        CASE type = "ping" -> client
          [] refused(mgr, client, type) -> send(client, "error")
          [] type = "command" -> send([client EXCEPT !.caused = TRUE], "result")
          [] type = "subscribe" ->
               [client EXCEPT !.subscriptions = @ \cup {topic}]
          [] type = "unsubscribe" ->
               [client EXCEPT !.subscriptions = @ \ {topic}]
          [] OTHER ->
               IF mgr.apiKey # "" /\ key = mgr.apiKey
               THEN [client EXCEPT !.authenticated = TRUE]
               ELSE send(client, "error")
      clients == [mgr.clients EXCEPT ![c] = after]
  IN /\ mgr.clients[c].open
     /\ runs => calls < MaxCalls
     /\ calls' = IF runs THEN calls + 1 ELSE calls
     /\ wsManager' =
          [mgr EXCEPT !.clients =
             IF runs THEN broadcast(clients, "instagram:like", "result")
             ELSE clients]
     /\ UNCHANGED <<overlapVars, bmVars, quotaVars, now, ticks, last>>

\* broadcastEvent(event, data): to every authenticated client.
BroadcastEvent ==
  /\ wsManager.started
  /\ wsManager' =
       [wsManager EXCEPT !.clients =
          [c \in WsClients |->
             IF wsManager.clients[c].open /\ wsManager.clients[c].authenticated
             THEN send(wsManager.clients[c], "event")
             ELSE wsManager.clients[c]]]
  /\ UNCHANGED <<overlapVars, bmVars, quotaVars, now, ticks, calls, last>>

NextSocket ==
  \/ \E k \in ApiKeys : StartServer(k)
  \/ \E c \in WsClients : Connect(c)
  \/ \E c \in WsClients : Close(c)
  \/ \E c \in WsClients, type \in MessageTypes, key \in SentKeys,
        topic \in Topics :
       Message(c, type, key, topic)
  \/ BroadcastEvent

SpecSocket == InitLimiter /\ [][NextSocket]_vars

\* C40: with an API key configured, a client that has not sent a message
\* carrying exactly that key is not marked authenticated, has made no
\* platform action run, has no subscription, and has been sent neither an
\* action result nor an event.
C40_KeyRequired ==
  wsManager.apiKey # "" =>
    \A c \in WsClients :
      LET client == wsManager.clients[c]
      IN client.open /\ ~client.keyed =>
           /\ ~client.authenticated
           /\ ~client.caused
           /\ client.subscriptions = {}
           /\ client.received \cap {"result", "event"} = {}

\* With a key configured, a client that never sent the key has been refused
\* while another client, authenticated, has run an action and has been sent
\* its result and an event.
C40_Witness ==
  /\ wsManager.apiKey # ""
  /\ \E c, d \in WsClients :
       /\ wsManager.clients[c].open /\ ~wsManager.clients[c].keyed
       /\ "error" \in wsManager.clients[c].received
       /\ wsManager.clients[d].authenticated /\ wsManager.clients[d].caused
       /\ {"result", "event"} \subseteq wsManager.clients[d].received

====
